---- MODULE Spec2Model ----
(***************************************************************************)
(* A model of pkg/occlient/occlient.go: the wait operations built on a     *)
(* watch subscription (WaitAndGetDC, WaitAndGetPod, WaitAndGetSecret,      *)
(* WaitForBuildToFinish, the wait of DeleteProject) and the in-place       *)
(* update of a DeploymentConfig (PatchCurrentDC, UpdateDCToSupervisor,     *)
(* UpdateDCToGit).                                                         *)
(***************************************************************************)
EXTENDS Naturals, Sequences, FiniteSets

\* Bounds of the model.
MaxEvents == 3      \* events the server emits on one watch subscription
MaxVolumes == 2     \* volumes, and mounts of the primary container, before the first operation
MaxOps == 2         \* operations called one after the other on the DeploymentConfig
MaxEnvs == 2        \* length of existingEnvs and of envVars in a merge of variables
MaxFiles == 2       \* length of copyFiles
MaxFailAt == 3      \* the entry of the archive at which a file system call can fail
MaxWrites == 4      \* writes other callers make on the cluster during the operations
MaxRaceWrites == 3  \* writes other callers make beside one update in place
MaxLines == 2       \* lines the command in the pod writes on its output during CopyFile

VARIABLES
    \* ---- the wait operations
    op,          \* the wait operation that is called
    value,       \* WaitAndGetDC: the expected value of the annotation
    watchErr,    \* whether the client's Watch call fails
    emitted,     \* the events the server has put on w.ResultChan(), in order
    consumed,    \* how many of them have been received
    closed,      \* the server has closed the result channel
    stops,       \* number of calls of w.Stop()
    timerFired,  \* the channel of time.After holds its tick
    pc,          \* position of the calling goroutine
    ret,         \* what the call returned
    returns,     \* number of times the call returned to its caller
    termSeen,    \* the receive loop has seen the channel closed or an ERROR event
    gpc,         \* WaitAndGetPod: position of the background goroutine
    gval,        \* WaitAndGetPod: what the goroutine is sending
    chClosed,    \* WaitAndGetPod: podChannel and watchErrorChannel are closed
    \* ---- the update of a DeploymentConfig in place
    dcR,         \* the DeploymentConfig held by the cluster
    pvcs,        \* names of the PersistentVolumeClaims held by the cluster
    pop,         \* the operation that is called: UpdateDCToSupervisor, UpdateDCToGit
    ppc,         \* its position
    cur,         \* PatchCurrentDC: currentDC as fetched
    desired,     \* the generated dc; after the copy step, dc with what was copied
    pending,     \* PatchCurrentDC: the object handed to Update
    pres,        \* what the operation returned
    updates,     \* number of Update calls the operation has made
    dcAtCall,    \* the cluster's DeploymentConfig when the operation was called
    pvcsAtCall,  \* the cluster's claims when the operation was called
    hist,        \* the operations that have returned, with their results
    dc0,         \* the DeploymentConfig before the first operation
    imagePorts,  \* UpdateDCToSupervisor: the exposed ports of the resolved image
    writes,      \* number of writes other callers have made on the cluster
    linkpc,      \* LinkSecret of another caller: "instantiate" between its Update and its Instantiate
    \* ---- the merge of environment variables
    envIn,       \* existingEnvs of the call
    envNew,      \* envVars of the call
    envOut,      \* retVal of the call
    envAgain,    \* retVal of a second call, on envOut and the same envVars
    mpc,         \* position of the caller
    \* ---- the removal of a volume from a DeploymentConfig
    rpc,         \* position of RemoveVolumeFromDeploymentConfig
    attempts,    \* number of calls retry.RetryOnConflict has made of its function
    rdc,         \* dc as fetched and changed by the current attempt
    rupdates,    \* number of Update calls made
    lastConflictErr, \* RetryOnConflict: the last conflict error, or ""
    rres,        \* what RemoveVolumeFromDeploymentConfig returned
    \* ---- the copy of files into a pod
    cLocal,      \* the file system node at localPath
    cFiles,      \* copyFiles: each path with the node the file system has there
    cpc,         \* position of CopyFile
    cSingle,     \* the local isSingleFileTransfer
    cmdArr,      \* the command handed to ExecCMDInContainer
    cPlan,       \* the goroutine: the headers makeTar writes when nothing fails
    cFail,       \* the goroutine: where and how archive construction fails
    wpc,         \* the goroutine: its position
    cArchive,    \* the headers written to the pipe and read from it
    cTrailer,    \* the end-of-archive marker has gone through the pipe
    rdpc,        \* the reading side of the pipe, inside ExecCMDInContainer
    exitCode,    \* the exit status of the process, "" while it runs
    cres         \* what CopyFile returned

watchVars == <<op, value, watchErr, emitted, consumed, closed, stops,
               timerFired, pc, ret, returns, termSeen, gpc, gval, chClosed>>

patchVars == <<dcR, pvcs, pop, ppc, cur, desired, pending, pres, updates,
               dcAtCall, pvcsAtCall, hist, dc0, imagePorts, writes, linkpc>>

mergeVars == <<envIn, envNew, envOut, envAgain, mpc>>

removeVars == <<rpc, attempts, rdc, rupdates, lastConflictErr, rres>>

\* The state of the operations that the waits and the update in place leave
\* alone.
copyVars == <<cLocal, cFiles, cpc, cSingle, cmdArr, cPlan, cFail, wpc,
              cArchive, cTrailer, rdpc, exitCode, cres>>

libVars == <<mergeVars, removeVars, copyVars>>

vars == <<watchVars, patchVars, libVars>>

----------------------------------------------------------------------------
\* The wait operations and what their watch streams carry.

WaitOps == {"DC", "Pod", "Secret", "Build", "Project"}

\* Values of the annotation app.kubernetes.io/component-source-type.
SourceTypes == {"git", "local"}

\* The field of a snapshot each wait looks at.
Vals(o) ==
    CASE o = "DC"      -> SourceTypes
      [] o = "Pod"     -> {"Pending", "Running", "Failed", "Unknown"}
      [] o = "Build"   -> {"Running", "Complete", "Failed", "Cancelled", "Error"}
      [] o = "Secret"  -> {"present"}
      [] o = "Project" -> {"", "Terminating"}

\* Change types carried with a snapshot of the watched kind. Only the
\* project wait reads the change type.
ResTypes(o) == IF o = "Project" THEN {"MODIFIED", "DELETED", "ERROR"}
                                ELSE {"MODIFIED"}

\* An event is (change type, object). The object is a snapshot of the watched
\* kind ("res") or, on an ERROR event, a Status object.
Events(o) ==
    {[type |-> t, obj |-> "res", val |-> v] : t \in ResTypes(o), v \in Vals(o)}
    \cup {[type |-> "ERROR", obj |-> "status", val |-> ""]}

NoRet == [kind |-> "none", idx |-> 0, err |-> ""]
RetOk(i) == [kind |-> "ok", idx |-> i, err |-> ""]
RetErr(e) == [kind |-> "err", idx |-> 0, err |-> e]

\* w.ResultChan(): the next event, and whether a receive yields !ok.
HasEvent == consumed < Len(emitted)
NextEvent == emitted[consumed + 1]
ChanClosed == (closed \/ stops > 0) /\ ~HasEvent

InitWatch ==
    /\ op \in WaitOps
    /\ value \in SourceTypes
    /\ watchErr \in BOOLEAN
    /\ emitted = <<>>
    /\ consumed = 0
    /\ closed = FALSE
    /\ stops = 0
    /\ timerFired = FALSE
    /\ pc = "call"
    /\ ret = NoRet
    /\ returns = 0
    /\ termSeen = FALSE
    /\ gpc = "none"
    /\ gval = NoRet
    /\ chClosed = FALSE

\* return from a wait whose subscription is open: the deferred w.Stop() runs.
Return(r) ==
    /\ pc' = "done"
    /\ ret' = r
    /\ returns' = returns + 1
    /\ stops' = stops + 1

\* The Watch call at the head of each wait. client-go returns a nil
\* watch.Interface together with the error; WaitAndGetDC defers w.Stop()
\* before it looks at the error, the others return the error first.
WatchOpen ==
    /\ pc = "call"
    /\ IF watchErr
       THEN IF op = "DC"
            THEN /\ pc' = "panic"
                 /\ ret' = [kind |-> "panic", idx |-> 0, err |-> "nil watch"]
                 /\ UNCHANGED <<returns, gpc>>
            ELSE /\ pc' = "done"
                 /\ ret' = RetErr("unable to watch")
                 /\ returns' = returns + 1
                 /\ gpc' = gpc
       ELSE /\ pc' = "wait"
            /\ gpc' = IF op = "Pod" THEN "recv" ELSE gpc
            /\ UNCHANGED <<ret, returns>>
    /\ UNCHANGED <<op, value, watchErr, emitted, consumed, closed, stops,
                   timerFired, termSeen, gval, chClosed>>
    /\ UNCHANGED <<patchVars, libVars>>

\* The server puts one more event on the result channel.
Emit ==
    /\ pc = "wait"
    /\ ~closed /\ stops = 0
    /\ Len(emitted) < MaxEvents
    /\ \E e \in Events(op) : emitted' = Append(emitted, e)
    /\ UNCHANGED <<op, value, watchErr, consumed, closed, stops, timerFired,
                   pc, ret, returns, termSeen, gpc, gval, chClosed>>
    /\ UNCHANGED <<patchVars, libVars>>

\* The server closes the result channel.
CloseStream ==
    /\ pc = "wait"
    /\ ~closed /\ stops = 0
    /\ closed' = TRUE
    /\ UNCHANGED <<op, value, watchErr, emitted, consumed, stops, timerFired,
                   pc, ret, returns, termSeen, gpc, gval, chClosed>>
    /\ UNCHANGED <<patchVars, libVars>>

\* time.After: the timer of WaitAndGetDC and of WaitAndGetPod fires.
TimerFire ==
    /\ op \in {"DC", "Pod"}
    /\ pc = "wait"
    /\ ~timerFired
    /\ timerFired' = TRUE
    /\ UNCHANGED <<op, value, watchErr, emitted, consumed, closed, stops,
                   pc, ret, returns, termSeen, gpc, gval, chClosed>>
    /\ UNCHANGED <<patchVars, libVars>>

----------------------------------------------------------------------------
\* The receive loops.

\* The calling goroutine stays in its loop.
Stay == UNCHANGED <<pc, ret, returns, stops>>

\* WaitAndGetDC: the type assertion and the comparison of the annotation.
\* (annotationUpdated_mut: the same without the comparison of the value.)
annotationUpdated_mut(e, v) == e.obj = "res"
annotationUpdated(e, v) == e.obj = "res" /\ e.val = v

\* WaitAndGetDC, select case <-timeoutChannel.
\* (DCTimeout_mut: the same returning nil, nil.)
DCTimeout_mut ==
    /\ op = "DC" /\ pc = "wait"
    /\ timerFired
    /\ Return(RetOk(0))
    /\ UNCHANGED <<op, value, watchErr, emitted, consumed, closed, timerFired,
                   termSeen, gpc, gval, chClosed>>
    /\ UNCHANGED <<patchVars, libVars>>
DCTimeout ==
    /\ op = "DC" /\ pc = "wait"
    /\ timerFired
    /\ Return(RetErr("Timed out waiting for annotation to update"))
    /\ UNCHANGED <<op, value, watchErr, emitted, consumed, closed, timerFired,
                   termSeen, gpc, gval, chClosed>>
    /\ UNCHANGED <<patchVars, libVars>>

\* WaitAndGetDC, select case val, ok := <-w.ResultChan(). On !ok the break
\* leaves the select statement, not the for loop.
DCRecv ==
    /\ op = "DC" /\ pc = "wait"
    /\ HasEvent \/ ChanClosed
    /\ IF ~HasEvent
       THEN /\ termSeen' = (termSeen \/ ~timerFired)
            /\ Stay
            /\ UNCHANGED consumed
       ELSE /\ consumed' = consumed + 1
            /\ termSeen' = (termSeen \/ (NextEvent.type = "ERROR" /\ ~timerFired))
            /\ IF annotationUpdated(NextEvent, value)
               THEN Return(RetOk(consumed + 1))
               ELSE Stay
    /\ UNCHANGED <<op, value, watchErr, emitted, closed, timerFired,
                   gpc, gval, chClosed>>
    /\ UNCHANGED <<patchVars, libVars>>

\* WaitForBuildToFinish: the switch on e.Status.Phase.
buildPhase(e) ==
    IF e.obj # "res" THEN "continue"
    ELSE IF e.val = "Complete" THEN "ok"
    ELSE IF e.val \in {"Failed", "Cancelled", "Error"} THEN "err"
    ELSE "continue"

\* WaitForBuildToFinish: one turn of the loop. On !ok the break leaves the
\* loop and the function returns nil.
BuildRecv ==
    /\ op = "Build" /\ pc = "wait"
    /\ HasEvent \/ ChanClosed
    /\ IF ~HasEvent
       THEN /\ Return(RetOk(0))
            /\ UNCHANGED consumed
       ELSE /\ consumed' = consumed + 1
            /\ CASE buildPhase(NextEvent) = "ok" -> Return(RetOk(consumed + 1))
                 [] buildPhase(NextEvent) = "err" -> Return(RetErr("build status"))
                 [] OTHER -> Stay
    /\ UNCHANGED <<op, value, watchErr, emitted, closed, timerFired,
                   termSeen, gpc, gval, chClosed>>
    /\ UNCHANGED <<patchVars, libVars>>

\* WaitAndGetSecret: one turn of the loop.
SecretRecv ==
    /\ op = "Secret" /\ pc = "wait"
    /\ HasEvent \/ ChanClosed
    /\ IF ~HasEvent
       THEN /\ Return(RetErr("unknown error while waiting for secret"))
            /\ UNCHANGED consumed
       ELSE /\ consumed' = consumed + 1
            /\ IF NextEvent.obj = "res"
               THEN Return(RetOk(consumed + 1))
               ELSE Stay
    /\ UNCHANGED <<op, value, watchErr, emitted, closed, timerFired,
                   termSeen, gpc, gval, chClosed>>
    /\ UNCHANGED <<patchVars, libVars>>

\* DeleteProject: what one event means for the wait.
projectPhase(e) ==
    IF e.obj = "res" /\ e.val = ""
    THEN IF e.type = "DELETED" THEN "ok"
         ELSE IF e.type = "ERROR" THEN "err"
         ELSE "continue"
    ELSE "continue"

\* DeleteProject: one turn of the loop that waits for the deletion.
ProjectRecv ==
    /\ op = "Project" /\ pc = "wait"
    /\ HasEvent \/ ChanClosed
    /\ IF ~HasEvent
       THEN /\ Return(RetErr("received unexpected signal on project watch channel"))
            /\ UNCHANGED consumed
       ELSE /\ consumed' = consumed + 1
            /\ CASE projectPhase(NextEvent) = "ok" -> Return(RetOk(consumed + 1))
                 [] projectPhase(NextEvent) = "err" ->
                        Return(RetErr("failed watching the deletion of project"))
                 [] OTHER -> Stay
    /\ UNCHANGED <<op, value, watchErr, emitted, closed, timerFired,
                   termSeen, gpc, gval, chClosed>>
    /\ UNCHANGED <<patchVars, libVars>>

----------------------------------------------------------------------------
\* WaitAndGetPod: a goroutine reads the stream and hands the outcome to the
\* caller over one of two unbuffered channels.

\* The goroutine found the result channel closed: it sends an error.
\* (onWatchClosed_mut: it leaves the loop without sending.)
onWatchClosed_mut == [g |-> "close", v |-> NoRet]
onWatchClosed == [g |-> "sendErr", v |-> RetErr("watch channel was closed")]

\* The goroutine's switch on the phase of the pod of event number i.
podPhase(e, i) ==
    IF e.obj # "res"
    THEN [g |-> "sendErr", v |-> RetErr("unable to convert event object to Pod")]
    ELSE IF e.val = "Running" THEN [g |-> "sendPod", v |-> RetOk(i)]
    ELSE IF e.val \in {"Failed", "Unknown"}
         THEN [g |-> "sendErr", v |-> RetErr("pod status")]
    ELSE [g |-> "recv", v |-> NoRet]

\* One receive of the goroutine. It goes on after the caller has returned.
GRecv ==
    /\ gpc = "recv"
    /\ HasEvent \/ ChanClosed
    /\ IF ~HasEvent
       THEN /\ gpc' = onWatchClosed.g
            /\ gval' = onWatchClosed.v
            /\ UNCHANGED consumed
       ELSE /\ consumed' = consumed + 1
            /\ gpc' = podPhase(NextEvent, consumed + 1).g
            /\ gval' = podPhase(NextEvent, consumed + 1).v
    /\ UNCHANGED <<op, value, watchErr, emitted, closed, stops, timerFired,
                   pc, ret, returns, termSeen, chClosed>>
    /\ UNCHANGED <<patchVars, libVars>>

\* close(podChannel); close(watchErrorChannel), after the loop.
GClose ==
    /\ gpc = "close"
    /\ gpc' = "exit"
    /\ chClosed' = TRUE
    /\ UNCHANGED <<op, value, watchErr, emitted, consumed, closed, stops,
                   timerFired, pc, ret, returns, termSeen, gval>>
    /\ UNCHANGED <<patchVars, libVars>>

\* The cases of the caller's select that can proceed.
PodReady ==
    (IF gpc = "sendPod" \/ chClosed THEN {"pod"} ELSE {})
    \cup (IF gpc = "sendErr" \/ chClosed THEN {"err"} ELSE {})
    \cup (IF timerFired THEN {"timeout"} ELSE {})

\* What the caller returns on a case: a receive from a closed channel yields
\* the zero value, a nil pod or a nil error.
PodOutcome(c) ==
    CASE c = "timeout" -> RetErr("waited but couldn't find running pod")
      [] c = "pod" -> IF gpc = "sendPod" THEN gval ELSE RetOk(0)
      [] c = "err" -> IF gpc = "sendErr" THEN gval ELSE RetOk(0)

\* The caller's select: one of the cases that can proceed is chosen.
PodSelect ==
    /\ op = "Pod" /\ pc = "wait"
    /\ \E c \in PodReady :
        /\ Return(PodOutcome(c))
        /\ gpc' = IF (c = "pod" /\ gpc = "sendPod") \/ (c = "err" /\ gpc = "sendErr")
                  THEN "close" ELSE gpc
    /\ UNCHANGED <<op, value, watchErr, emitted, consumed, closed, timerFired,
                   termSeen, gval, chClosed>>
    /\ UNCHANGED <<patchVars, libVars>>

----------------------------------------------------------------------------
\* The DeploymentConfig and its update in place.

\* commonObjectMeta.Name: the name of the component, of its DeploymentConfig
\* and of its primary container.
Name == "app"

supervisordVolumeName == "odo-supervisord-shared-data"

getAppRootVolumeName(dcName) == dcName \o "-s2idata"

\* A volume is (name, claim); the claim is "" for an EmptyDir volume.
Vol(n, c) == [name |-> n, claim |-> c]
Mount(n, p) == [name |-> n, path |-> p]
InitContainer(n) == [name |-> n]

EnvVar(n, v) == [name |-> n, value |-> v]

\* The variables UpdateDCToSupervisor adds from the S2I paths of the builder
\* image, in the order of the call.
bootstrapEnvs ==
    <<EnvVar("ODO_S2I_SCRIPTS_URL", "scripts-url"),
      EnvVar("ODO_S2I_SCRIPTS_PROTOCOL", "scripts-protocol"),
      EnvVar("ODO_S2I_SRC_BIN_PATH", "src-bin-path"),
      EnvVar("ODO_S2I_DEPLOYMENT_DIR", "deployment-dir")>>

\* The loop `for _, envVar := range list { m[envVar.Name] = envVar }`.
RECURSIVE putEnvVars(_, _)
putEnvVars(m, list) ==
    IF list = <<>> THEN m
    ELSE putEnvVars([n \in DOMAIN m \cup {Head(list).name} |->
                        IF n = Head(list).name THEN Head(list) ELSE m[n]],
                    Tail(list))

\* mapExistingEnvs after the two loops of uniqueAppendOrOverwriteEnvVars.
mapExistingEnvs(existingEnvs, envVars) ==
    putEnvVars(putEnvVars(<<>>, existingEnvs), envVars)

\* uniqueAppendOrOverwriteEnvVars: the entries of retVal. The slice is built
\* by a range over the map, so its order is any order of these entries.
\* (uniqueAppendOrOverwriteEnvVars_mut: the new variables appended to the
\* existing ones.)
uniqueAppendOrOverwriteEnvVars_mut(existingEnvs, envVars) ==
    {existingEnvs[i] : i \in DOMAIN existingEnvs}
        \cup {envVars[i] : i \in DOMAIN envVars}
uniqueAppendOrOverwriteEnvVars(existingEnvs, envVars) ==
    LET m == mapExistingEnvs(existingEnvs, envVars)
    IN  {m[n] : n \in DOMAIN m}

\* The orders a range over a map of these entries can produce.
Orderings(S) ==
    {q \in [1..Cardinality(S) -> S] : \A i, j \in DOMAIN q : i # j => q[i] # q[j]}

\* The variables of a container are kept as the set of the entries of its
\* list, whose names are distinct; the merge reads them as a list.
RECURSIVE EnvList(_)
EnvList(S) ==
    IF S = {} THEN <<>>
    ELSE LET e == CHOOSE x \in S : TRUE IN <<e>> \o EnvList(S \ {e})

Container(n, ports, env, mounts) ==
    [name |-> n, ports |-> ports, env |-> env, mounts |-> mounts]

NoDC == [exists |-> FALSE, name |-> "", rv |-> 0, ann |-> "",
         containers |-> <<>>, volumes |-> <<>>, initc |-> <<>>]

NoRes == [ok |-> FALSE, err |-> ""]
Ok == [ok |-> TRUE, err |-> ""]
Err(e) == [ok |-> FALSE, err |-> e]

PatchOps == {"ToSupervisor", "ToGit"}

Range(q) == {q[i] : i \in DOMAIN q}

\* The sequences of at most n different elements of S.
SeqsNoRep(S, n) ==
    {q \in UNION {[1..k -> S] : k \in 0..n} :
        \A i, j \in DOMAIN q : i # j => q[i] # q[j]}

\* What a DeploymentConfig holds before the first operation: volumes and
\* mounts a user added, with or without the odo data volume.
VolumePool == {Vol("u1", "pvc1"), Vol("u2", "pvc2"),
               Vol(getAppRootVolumeName(Name), getAppRootVolumeName(Name))}
MountPool == {Mount("u1", "/data/u1"), Mount("u2", "/data/u2"),
              Mount(getAppRootVolumeName(Name), "/opt/app-root")}

Sidecar == Container("sidecar", <<>>, {}, <<>>)

\* The container lists: the primary container alone, behind a container the
\* user added, or missing.
ContainerLists(mounts) ==
    LET primary == Container(Name, <<8080>>, {EnvVar("A", "1")}, mounts)
    IN  {<<primary>>, <<Sidecar, primary>>, <<Sidecar>>}

InitialDCs ==
    {[exists |-> TRUE, name |-> Name, rv |-> 1, ann |-> "git",
      containers |-> cs, volumes |-> vs, initc |-> <<>>] :
        vs \in SeqsNoRep(VolumePool, MaxVolumes),
        cs \in UNION {ContainerLists(ms) : ms \in SeqsNoRep(MountPool, MaxVolumes)}}
    \cup {NoDC}

IdleMerge ==
    /\ envIn = <<>>
    /\ envNew = <<>>
    /\ envOut = <<>>
    /\ envAgain = <<>>
    /\ mpc = "idle"

NoRemoveRes == [ok |-> FALSE, err |-> "", name |-> "", cause |-> ""]

IdleRemove ==
    /\ rpc = "idle"
    /\ attempts = 0
    /\ rdc = NoDC
    /\ rupdates = 0
    /\ lastConflictErr = ""
    /\ rres = NoRemoveRes

\* A file system node: a regular file, a symbolic link with its target
\* text, a directory with its entries by name, or nothing.
File == [kind |-> "file", target |-> "", ch |-> <<>>]
Link(t) == [kind |-> "link", target |-> t, ch |-> <<>>]
Dir(entries) == [kind |-> "dir", target |-> "", ch |-> entries]
Missing == [kind |-> "missing", target |-> "", ch |-> <<>>]

NoCopyRes == [returned |-> FALSE, err |-> ""]
NoFail == [at |-> 0, how |-> ""]

IdleCopy ==
    /\ cLocal = Missing
    /\ cFiles = <<>>
    /\ cpc = "idle"
    /\ cSingle = FALSE
    /\ cmdArr = <<>>
    /\ cPlan = <<>>
    /\ cFail = NoFail
    /\ wpc = "none"
    /\ cArchive = <<>>
    /\ cTrailer = FALSE
    /\ rdpc = "none"
    /\ exitCode = ""
    /\ cres = NoCopyRes

IdleLib == IdleMerge /\ IdleRemove /\ IdleCopy

IdlePatch ==
    /\ dcR = NoDC
    /\ pvcs = {}
    /\ pop = "none"
    /\ ppc = "idle"
    /\ cur = NoDC
    /\ desired = NoDC
    /\ pending = NoDC
    /\ pres = NoRes
    /\ updates = 0
    /\ dcAtCall = NoDC
    /\ pvcsAtCall = {}
    /\ hist = <<>>
    /\ dc0 = NoDC
    /\ imagePorts = <<>>
    /\ writes = 0
    /\ linkpc = "none"

IdleWatch ==
    /\ op = "DC"
    /\ value = "git"
    /\ watchErr = FALSE
    /\ emitted = <<>>
    /\ consumed = 0
    /\ closed = FALSE
    /\ stops = 0
    /\ timerFired = FALSE
    /\ pc = "idle"
    /\ ret = NoRet
    /\ returns = 0
    /\ termSeen = FALSE
    /\ gpc = "none"
    /\ gval = NoRet
    /\ chClosed = FALSE

InitPatch ==
    /\ dcR \in InitialDCs
    /\ pvcs \in {{}, {getAppRootVolumeName(Name)}}
    /\ pop = "none"
    /\ ppc = "idle"
    /\ cur = NoDC
    /\ desired = NoDC
    /\ pending = NoDC
    /\ pres = NoRes
    /\ updates = 0
    /\ dcAtCall = dcR
    /\ pvcsAtCall = pvcs
    /\ hist = <<>>
    /\ dc0 = dcR
    /\ imagePorts = <<>>
    /\ writes = 0
    /\ linkpc = "none"

\* GetDeploymentConfigFromName: the DeploymentConfig of the name, or the
\* error of the Get call when the cluster holds none.
\* (GetDeploymentConfigFromName_mut: the same with no error on a missing one.)
GetDeploymentConfigFromName_mut(name) == [err |-> "", dc |-> dcR]
GetDeploymentConfigFromName(name) ==
    IF dcR.exists /\ dcR.name = name
    THEN [err |-> "", dc |-> dcR]
    ELSE [err |-> "unable to get DeploymentConfig", dc |-> NoDC]

\* The exposed ports of the image that UpdateDCToSupervisor resolves
\* (imageStreamImage): those of the container, or one more.
ImageExposedPorts == {<<8080>>, <<8080, 8443>>}

\* The CommonImageMeta literal of UpdateDCToSupervisor: Ports is taken from
\* the container found in the current DeploymentConfig.
\* (commonImageMeta_mut: Ports taken from the resolved image.)
commonImageMeta_mut(foundCurrentDCContainer, exposedPorts) ==
    [Ports |-> exposedPorts]
commonImageMeta(foundCurrentDCContainer, exposedPorts) ==
    [Ports |-> foundCurrentDCContainer.ports]

\* findContainer: the first container of the name.
\* (findContainer_mut: the container at the head of the list.)
findContainer_mut(containers, name) ==
    IF containers = <<>>
    THEN [found |-> FALSE, c |-> Container("", <<>>, {}, <<>>)]
    ELSE [found |-> TRUE, c |-> containers[1]]
findContainer(containers, name) ==
    LET I == {i \in 1..Len(containers) : containers[i].name = name}
    IN  IF name = "" \/ I = {}
        THEN [found |-> FALSE, c |-> Container("", <<>>, {}, <<>>)]
        ELSE [found |-> TRUE,
              c |-> containers[CHOOSE i \in I : \A j \in I : i <= j]]

\* generateGitDeploymentConfig: one container of the component's name with
\* the given ports and variables, no volume, no init container.
generateGitDeploymentConfig(ports, envVars) ==
    [exists |-> TRUE, name |-> Name, rv |-> 0, ann |-> "git",
     containers |-> <<Container(Name, ports, envVars, <<>>)>>,
     volumes |-> <<>>,
     initc |-> <<>>]

\* generateSupervisordDeploymentConfig: one container of the component's
\* name that mounts the supervisord volume, and that EmptyDir volume.
generateSupervisordDeploymentConfig(ports, envVars) ==
    [exists |-> TRUE, name |-> Name, rv |-> 0, ann |-> "local",
     containers |-> <<Container(Name, ports, envVars,
                        <<Mount(supervisordVolumeName, "/var/lib/supervisord")>>)>>,
     volumes |-> <<Vol(supervisordVolumeName, "")>>,
     initc |-> <<>>]

addBootstrapVolumeCopyInitContainer(dc, dcName) ==
    [dc EXCEPT !.initc = Append(@, InitContainer("copy-files-to-volume"))]

addBootstrapSupervisordInitContainer(dc, dcName) ==
    [dc EXCEPT !.initc = Append(@, InitContainer("copy-supervisord"))]

addBootstrapVolume(dc, dcName) ==
    [dc EXCEPT !.volumes = Append(@, Vol(getAppRootVolumeName(dcName),
                                         getAppRootVolumeName(dcName)))]

\* addBootstrapVolumeMount: the mount goes to the first container.
addBootstrapVolumeMount(dc, dcName) ==
    [dc EXCEPT !.containers[1].mounts =
                    Append(@, Mount(getAppRootVolumeName(dcName), "/opt/app-root"))]

\* The two loops of copyVolumesAndVolumeMounts: an entry of the supervisord
\* volume is skipped, the first other entry is appended, and the break that
\* follows the append ends the loop.
copiedEntries(entries) ==
    LET I == {i \in 1..Len(entries) : entries[i].name # supervisordVolumeName}
    IN  IF I = {} THEN <<>>
        ELSE <<entries[CHOOSE i \in I : \A j \in I : i <= j]>>

copyVolumesAndVolumeMounts(dc, currentDC, matchingContainer) ==
    [dc EXCEPT
        !.containers =
            [i \in 1..Len(dc.containers) |->
                IF dc.containers[i].name = matchingContainer.name
                THEN [dc.containers[i] EXCEPT
                        !.mounts = @ \o copiedEntries(matchingContainer.mounts)]
                ELSE dc.containers[i]],
        !.volumes = @ \o copiedEntries(currentDC.volumes)]

\* The loop `for i, x := range s { if x.Name == nm { s = append(s[:i],
\* s[i+1:]...) } }` of removeVolumeFromDC, removeVolumeMountFromDC and
\* removeTracesOfSupervisordFromDC. The range reads the backing array arr over
\* the length it had at the start; the append shifts the tail of the current
\* slice, of length len, down in that array, and panics when i+1 > len.
RECURSIVE removeLoop(_, _, _, _, _)
removeLoop(arr, len, i, found, nm) ==
    IF i > Len(arr)
    THEN [found |-> found, out |-> SubSeq(arr, 1, len), panic |-> FALSE]
    ELSE IF arr[i].name # nm
    THEN removeLoop(arr, len, i + 1, found, nm)
    ELSE IF i > len
    THEN [found |-> TRUE, out |-> SubSeq(arr, 1, len), panic |-> TRUE]
    ELSE removeLoop([k \in 1..Len(arr) |->
                        IF k >= i /\ k < len THEN arr[k + 1] ELSE arr[k]],
                    len - 1, i + 1, TRUE, nm)

removeNamed(entries, nm) == removeLoop(entries, Len(entries), 1, FALSE, nm)

\* removeVolumeFromDC: (found, the dc without the volume).
removeVolumeFromDC(vol, dc) ==
    LET r == removeNamed(dc.volumes, vol)
    IN  [found |-> r.found, panic |-> r.panic,
         dc |-> [dc EXCEPT !.volumes = r.out]]

\* removeVolumeMountFromDC: the mount is removed from every container.
\* (removeVolumeMountFromDC_mut: the same with found starting as true.)
removeVolumeMountFromDC_mut(vm, dc) ==
    LET r(i) == removeNamed(dc.containers[i].mounts, vm)
        I == 1..Len(dc.containers)
    IN  [found |-> TRUE,
         panic |-> \E i \in I : r(i).panic,
         dc |-> [dc EXCEPT !.containers =
                    [i \in I |-> [dc.containers[i] EXCEPT !.mounts = r(i).out]]]]
removeVolumeMountFromDC(vm, dc) ==
    LET r(i) == removeNamed(dc.containers[i].mounts, vm)
        I == 1..Len(dc.containers)
    IN  [found |-> \E i \in I : r(i).found,
         panic |-> \E i \in I : r(i).panic,
         dc |-> [dc EXCEPT !.containers =
                    [i \in I |-> [dc.containers[i] EXCEPT !.mounts = r(i).out]]]]

\* removeTracesOfSupervisordFromDC, the handler UpdateDCToGit passes to
\* PatchCurrentDC: (error, the dc).
removeTracesOfSupervisordFromDC(dc) ==
    LET v == removeVolumeFromDC(getAppRootVolumeName(dc.name), dc)
        m == removeVolumeMountFromDC(getAppRootVolumeName(dc.name), v.dc)
        c == removeNamed(m.dc.initc, "copy-files-to-volume")
    IN  IF v.panic THEN [err |-> "panic", dc |-> dc]
        ELSE IF ~v.found
        THEN [err |-> "unable to find volume in dc", dc |-> v.dc]
        ELSE IF m.panic THEN [err |-> "panic", dc |-> dc]
        ELSE IF ~m.found
        THEN [err |-> "unable to find volume mount in dc", dc |-> m.dc]
        ELSE IF c.panic THEN [err |-> "panic", dc |-> dc]
        ELSE [err |-> "", dc |-> [m.dc EXCEPT !.initc = c.out]]

\* The handler of each operation; UpdateDCToSupervisor passes nil.
\* (prePatchDCHandler_mut: the error of the handler is dropped.)
prePatchDCHandler_mut(o, dc) ==
    IF o = "ToGit"
    THEN [err |-> "", dc |-> removeTracesOfSupervisordFromDC(dc).dc]
    ELSE [err |-> "", dc |-> dc]
prePatchDCHandler(o, dc) ==
    IF o = "ToGit" THEN removeTracesOfSupervisordFromDC(dc)
                   ELSE [err |-> "", dc |-> dc]

\* The operation o returns r.
End(o, r) ==
    /\ ppc' = "done"
    /\ pres' = r
    /\ hist' = Append(hist, [op |-> o, ok |-> r.ok])

\* A call of an operation: what it starts from.
Begin(o) ==
    /\ ppc \in {"idle", "done"}
    /\ Len(hist) < MaxOps
    /\ pop' = o
    /\ updates' = 0
    /\ dcAtCall' = dcR
    /\ pvcsAtCall' = pvcs
    /\ cur' = NoDC
    /\ pending' = NoDC

\* UpdateDCToGit up to its call of PatchCurrentDC: the dc is generated from
\* the ports and variables of the current container.
UpdateDCToGit ==
    /\ Begin("ToGit")
    /\ \E imageName \in {"", "app-image"} :
        LET f == findContainer(dcR.containers, Name)
        IN  IF imageName = ""
            THEN End("ToGit", Err("UpdateDCToGit imageName cannot be blank"))
                 /\ desired' = NoDC
            ELSE IF ~dcR.exists
            THEN End("ToGit", Err("unable to get DeploymentConfig"))
                 /\ desired' = NoDC
            ELSE IF ~f.found
            THEN End("ToGit", Err("Unable to find container"))
                 /\ desired' = NoDC
            ELSE /\ desired' = generateGitDeploymentConfig(f.c.ports, f.c.env)
                 /\ ppc' = "patch"
                 /\ UNCHANGED <<pres, hist>>
    /\ UNCHANGED <<dcR, pvcs, dc0, imagePorts, writes, linkpc>>
    /\ UNCHANGED <<watchVars, libVars>>

\* How far the resolution of the builder image gets in UpdateDCToSupervisor:
\* ParseImageName, GetImageStream and GetImageStreamImage run before the
\* DeploymentConfig is fetched, GetS2IPathsFromBuilderImg after its
\* container is found.
ImageOutcomes == {"parse", "stream", "image", "s2i", "ok"}

\* The error UpdateDCToSupervisor returns for an image that does not resolve.
imageErr(outcome) ==
    CASE outcome = "parse" -> "unable to parse image name for DeploymentConfig update"
      [] outcome = "stream" -> "unable to get image stream for CreateBuildConfig"
      [] outcome = "image" -> "unable to bootstrap supervisord"
      [] outcome = "s2i" -> "unable to bootstrap supervisord"
      [] OTHER -> ""

\* The dc UpdateDCToSupervisor generates for PatchCurrentDC from the container
\* it found: the ports of CommonImageMeta, the variables merged with the
\* bootstrap ones, and the bootstrap init containers, volume and mount.
supervisorDC(foundCurrentDCContainer, exposedPorts) ==
    LET meta == commonImageMeta(foundCurrentDCContainer, exposedPorts)
        inputEnvs == uniqueAppendOrOverwriteEnvVars(
                        EnvList(foundCurrentDCContainer.env), bootstrapEnvs)
        dc == generateSupervisordDeploymentConfig(meta.Ports, inputEnvs)
    IN  addBootstrapVolumeMount(
            addBootstrapVolume(
                addBootstrapSupervisordInitContainer(
                    addBootstrapVolumeCopyInitContainer(dc, Name),
                    Name),
                Name),
            Name)

\* UpdateDCToSupervisor up to its call of PatchCurrentDC: the image is
\* resolved, the dc is generated from the ports of the current container and
\* its variables merged with the bootstrap ones, and the bootstrap init
\* containers, volume and mount are added.
UpdateDCToSupervisor ==
    /\ Begin("ToSupervisor")
    /\ \E image \in ImageOutcomes, exposedPorts \in ImageExposedPorts :
        LET f == findContainer(dcR.containers, Name)
        IN  /\ imagePorts' = IF image \in {"s2i", "ok"} THEN exposedPorts ELSE <<>>
            /\ IF image \in {"parse", "stream", "image"}
               THEN End("ToSupervisor", Err(imageErr(image)))
                    /\ desired' = NoDC
               ELSE IF ~dcR.exists
               THEN End("ToSupervisor", Err("unable to get DeploymentConfig"))
                    /\ desired' = NoDC
               ELSE IF ~f.found
               THEN End("ToSupervisor", Err("Unable to find container"))
                    /\ desired' = NoDC
               ELSE IF image = "s2i"
               THEN End("ToSupervisor", Err(imageErr(image)))
                    /\ desired' = NoDC
               ELSE /\ desired' = supervisorDC(f.c, exposedPorts)
                    /\ ppc' = "patch"
                    /\ UNCHANGED <<pres, hist>>
    /\ UNCHANGED <<dcR, pvcs, dc0, writes, linkpc>>
    /\ UNCHANGED <<watchVars, libVars>>

\* The object PatchCurrentDC hands to Update: currentDC with the spec and the
\* annotations of dc; its name and its resourceVersion stay.
\* (patchedDC_mut: dc itself.)
patchedDC_mut(currentDC, dc) == dc
patchedDC(currentDC, dc) ==
    [currentDC EXCEPT !.containers = dc.containers,
                      !.volumes = dc.volumes,
                      !.initc = dc.initc,
                      !.ann = dc.ann]

\* PatchCurrentDC up to its call of Update: the current dc is fetched, its
\* container found, volumes and mounts copied, the handler applied, and the
\* spec and the annotations of the current dc replaced. desired keeps the dc
\* as it is after the copy.
PatchCurrentDC ==
    /\ ppc = "patch"
    /\ LET g == GetDeploymentConfigFromName(Name)
           f == findContainer(dcR.containers, Name)
           copied == copyVolumesAndVolumeMounts(desired, dcR, f.c)
           h == prePatchDCHandler(pop, copied)
       IN  IF g.err # ""
           THEN End(pop, Err("unable to get DeploymentConfig"))
                /\ UNCHANGED <<cur, desired, pending>>
           ELSE IF ~f.found
           THEN End(pop, Err("Unable to find current DeploymentConfig container"))
                /\ cur' = dcR
                /\ UNCHANGED <<desired, pending>>
           ELSE IF h.err = "panic"
           THEN /\ ppc' = "panic"
                /\ cur' = dcR
                /\ desired' = copied
                /\ UNCHANGED <<pending, pres, hist>>
           ELSE IF h.err # ""
           THEN End(pop, Err(h.err))
                /\ cur' = dcR
                /\ desired' = copied
                /\ UNCHANGED pending
           ELSE /\ cur' = dcR
                /\ desired' = copied
                /\ pending' = patchedDC(dcR, h.dc)
                /\ ppc' = "update"
                /\ UNCHANGED <<pres, hist>>
    /\ UNCHANGED <<dcR, pvcs, pop, updates, dcAtCall, pvcsAtCall, dc0, imagePorts, writes, linkpc>>
    /\ UNCHANGED <<watchVars, libVars>>

\* The Update call of PatchCurrentDC: the cluster takes the object when its
\* resourceVersion is the current one.
PatchUpdate ==
    /\ ppc = "update"
    /\ updates' = updates + 1
    /\ IF dcR.exists /\ dcR.rv = pending.rv
       THEN /\ dcR' = [pending EXCEPT !.rv = @ + 1]
            /\ ppc' = "wait"
            /\ UNCHANGED <<pres, hist>>
       ELSE /\ End(pop, Err("unable to update DeploymentConfig"))
            /\ UNCHANGED dcR
    /\ UNCHANGED <<pvcs, pop, cur, desired, pending, dcAtCall, pvcsAtCall, dc0,
                   imagePorts, writes, linkpc>>
    /\ UNCHANGED <<watchVars, libVars>>

\* The WaitAndGetDC call of PatchCurrentDC returns a snapshot or an error, or
\* panics in its deferred w.Stop() when the Watch call failed; the panic
\* unwinds PatchCurrentDC and its caller.
PatchWait ==
    /\ ppc = "wait"
    /\ \E outcome \in {"snapshot", "error", "panic"} :
        CASE outcome = "snapshot" -> ppc' = "pvc" /\ UNCHANGED <<pres, hist>>
          [] outcome = "error" ->
                End(pop, Err("unable to wait for DeploymentConfig to update"))
          [] outcome = "panic" -> ppc' = "panic" /\ UNCHANGED <<pres, hist>>
    /\ UNCHANGED <<dcR, pvcs, pop, cur, desired, pending, updates,
                   dcAtCall, pvcsAtCall, dc0, imagePorts, writes, linkpc>>
    /\ UNCHANGED <<watchVars, libVars>>

\* After PatchCurrentDC has returned nil: UpdateDCToSupervisor creates the
\* claim of the data volume, UpdateDCToGit deletes it.
AfterPatch ==
    /\ ppc = "pvc"
    /\ LET claim == getAppRootVolumeName(Name)
       IN  IF pop = "ToSupervisor"
           THEN IF claim \in pvcs
                THEN End(pop, Err("unable to create PVC")) /\ UNCHANGED pvcs
                ELSE End(pop, Ok) /\ pvcs' = pvcs \cup {claim}
           ELSE IF claim \in pvcs
                THEN End(pop, Ok) /\ pvcs' = pvcs \ {claim}
                ELSE End(pop, Err("unable to delete S2I data PVC")) /\ UNCHANGED pvcs
    /\ UNCHANGED <<dcR, pop, cur, desired, pending, updates,
                   dcAtCall, pvcsAtCall, dc0, imagePorts, writes, linkpc>>
    /\ UNCHANGED <<watchVars, libVars>>

----------------------------------------------------------------------------
NextPatch ==
    \/ UpdateDCToGit
    \/ UpdateDCToSupervisor
    \/ PatchCurrentDC
    \/ PatchUpdate
    \/ PatchWait
    \/ AfterPatch

PatchInit == IdleWatch /\ InitPatch /\ IdleLib

PatchSpec == PatchInit /\ [][NextPatch]_vars

NextWatch ==
    \/ WatchOpen
    \/ Emit
    \/ CloseStream
    \/ TimerFire
    \/ DCTimeout
    \/ DCRecv
    \/ BuildRecv
    \/ SecretRecv
    \/ ProjectRecv
    \/ GRecv
    \/ GClose
    \/ PodSelect

WatchInit == InitWatch /\ IdlePatch /\ IdleLib

WatchSpec == WatchInit /\ [][NextWatch]_vars

\* The Go scheduler runs every goroutine that can take a step, and a timer
\* that was started fires. Nothing makes the server emit an event or close
\* the stream.
FairWatchSpec ==
    /\ WatchSpec
    /\ WF_vars(WatchOpen)
    /\ WF_vars(TimerFire)
    /\ WF_vars(DCTimeout)
    /\ WF_vars(DCRecv)
    /\ WF_vars(BuildRecv)
    /\ WF_vars(SecretRecv)
    /\ WF_vars(ProjectRecv)
    /\ WF_vars(GRecv)
    /\ WF_vars(GClose)
    /\ WF_vars(PodSelect)

----------------------------------------------------------------------------
\* PatchCurrentDC with the wait it makes: the call of WaitAndGetDC at the end
\* of PatchCurrentDC runs on the watch subscription of the first part.

\* The DeploymentConfigs the calls start from: none, the component's
\* container alone, and the component with its data volume mounted.
WatchedDCs ==
    {d \in InitialDCs :
        d.exists =>
            /\ Len(d.containers) = 1
            /\ d.containers[1].name = Name
            /\ Len(d.volumes) = Len(d.containers[1].mounts)
            /\ \A i \in DOMAIN d.volumes :
                    /\ d.volumes[i].name = getAppRootVolumeName(Name)
                    /\ d.containers[1].mounts[i].name = getAppRootVolumeName(Name)}

InitPatchWatch ==
    /\ dcR \in WatchedDCs
    /\ pvcs = {vol.claim : vol \in Range(dcR.volumes)}
    /\ pop = "none"
    /\ ppc = "idle"
    /\ cur = NoDC
    /\ desired = NoDC
    /\ pending = NoDC
    /\ pres = NoRes
    /\ updates = 0
    /\ dcAtCall = dcR
    /\ pvcsAtCall = pvcs
    /\ hist = <<>>
    /\ dc0 = dcR
    /\ imagePorts = <<>>
    /\ writes = 0
    /\ linkpc = "none"

\* A caller other than the two operations calls PatchCurrentDC(name, dc, nil)
\* with a generated dc.
CallPatchCurrentDC ==
    /\ Begin("Patch")
    /\ \E dc \in {generateGitDeploymentConfig(<<8080>>, {}),
                  generateSupervisordDeploymentConfig(<<8080>>, {})} :
            desired' = dc
    /\ ppc' = "patch"
    /\ UNCHANGED <<dcR, pvcs, pres, hist, dc0, imagePorts, writes, linkpc>>
    /\ UNCHANGED <<watchVars, libVars>>

\* PatchCurrentDC calls WaitAndGetDC with the source type of the dc it was
\* given; the Watch call of the client succeeds or fails.
PatchWaitCall ==
    /\ ppc = "wait" /\ pc = "idle"
    /\ ppc' = "watching"
    /\ pc' = "call"
    /\ op' = "DC"
    /\ value' = desired.ann
    /\ watchErr' \in BOOLEAN
    /\ UNCHANGED <<emitted, consumed, closed, stops, timerFired, ret, returns,
                   termSeen, gpc, gval, chClosed>>
    /\ UNCHANGED <<dcR, pvcs, pop, cur, desired, pending, pres, updates,
                   dcAtCall, pvcsAtCall, hist, dc0, imagePorts, writes, linkpc>>
    /\ UNCHANGED libVars

\* WaitAndGetDC has ended: PatchCurrentDC wraps its error, or returns nil,
\* and a panic of WaitAndGetDC unwinds PatchCurrentDC and its caller.
\* (PatchWaitReturn_mut: the caller of PatchCurrentDC goes on to the claim
\* whatever PatchCurrentDC returned.)
PatchWaitReturn_mut ==
    /\ ppc = "watching" /\ pc \in {"done", "panic"}
    /\ pc' = "returned"
    /\ IF pc = "panic"
       THEN ppc' = "panic" /\ UNCHANGED <<pres, hist>>
       ELSE IF pop = "Patch"
       THEN End(pop, Ok)
       ELSE ppc' = "pvc" /\ UNCHANGED <<pres, hist>>
    /\ UNCHANGED <<op, value, watchErr, emitted, consumed, closed, stops,
                   timerFired, ret, returns, termSeen, gpc, gval, chClosed>>
    /\ UNCHANGED <<dcR, pvcs, pop, cur, desired, pending, updates,
                   dcAtCall, pvcsAtCall, dc0, imagePorts, writes, linkpc>>
    /\ UNCHANGED libVars
PatchWaitReturn ==
    /\ ppc = "watching" /\ pc \in {"done", "panic"}
    /\ pc' = "returned"
    /\ IF pc = "panic"
       THEN ppc' = "panic" /\ UNCHANGED <<pres, hist>>
       ELSE IF ret.kind = "err"
       THEN End(pop, Err("unable to wait for DeploymentConfig to update"))
       ELSE IF pop = "Patch"
       THEN End(pop, Ok)
       ELSE ppc' = "pvc" /\ UNCHANGED <<pres, hist>>
    /\ UNCHANGED <<op, value, watchErr, emitted, consumed, closed, stops,
                   timerFired, ret, returns, termSeen, gpc, gval, chClosed>>
    /\ UNCHANGED <<dcR, pvcs, pop, cur, desired, pending, updates,
                   dcAtCall, pvcsAtCall, dc0, imagePorts, writes, linkpc>>
    /\ UNCHANGED libVars

\* One operation is called on the DeploymentConfig and runs to its end.
NextPatchWatch ==
    \/ hist = <<>> /\ UpdateDCToGit
    \/ hist = <<>> /\ UpdateDCToSupervisor
    \/ hist = <<>> /\ CallPatchCurrentDC
    \/ PatchCurrentDC
    \/ PatchUpdate
    \/ PatchWaitCall
    \/ WatchOpen
    \/ Emit
    \/ CloseStream
    \/ TimerFire
    \/ DCTimeout
    \/ DCRecv
    \/ PatchWaitReturn
    \/ AfterPatch

PatchWatchInit == IdleWatch /\ InitPatchWatch /\ IdleLib

PatchWatchSpec == PatchWatchInit /\ [][NextPatchWatch]_vars

----------------------------------------------------------------------------
\* Properties of the wait operations.

TimeoutMsgs == {"Timed out waiting for annotation to update",
                "waited but couldn't find running pod"}

\* The errors that report the end of the watch stream.
WatchTerminatedMsgs == {"watch channel was closed",
                        "received unexpected signal on project watch channel",
                        "unknown error while waiting for secret"}

\* Event number i is a DeploymentConfig whose annotation has the expected value.
MatchingDC(i) == emitted[i].obj = "res" /\ emitted[i].val = value

\* C1: a snapshot returned by WaitAndGetDC is the first event, in emission
\* order, that is a DeploymentConfig whose annotation equals the expected
\* value: no earlier event matched, and no later one is returned.
C1_FirstMatchReturned ==
    (op = "DC" /\ pc = "done" /\ ret.kind = "ok") =>
        /\ ret.idx \in 1..Len(emitted)
        /\ MatchingDC(ret.idx)
        /\ \A j \in 1..(ret.idx - 1) : ~MatchingDC(j)

C1_Witness ==
    /\ op = "DC" /\ pc = "done" /\ ret.kind = "ok"
    /\ ret.idx = 2 /\ Len(emitted) = 3 /\ MatchingDC(3)

\* C2: once the receive loop of WaitAndGetDC has seen the stream closed, or an
\* ERROR event, before the timer fired, the call has failed with a
\* stream-termination error; it does not go on waiting.
C2_StreamEndTerminatesWait ==
    (op = "DC" /\ termSeen) =>
        /\ pc = "done" /\ ret.kind = "err"
        /\ ret.err \in WatchTerminatedMsgs
        /\ ret.err \notin TimeoutMsgs

\* The timer of WaitAndGetDC has fired while the call waits, the stream is
\* open and no event with the expected annotation has arrived.
TimedOutOpen ==
    /\ op = "DC" /\ pc = "wait"
    /\ timerFired /\ ~closed
    /\ \A i \in 1..Len(emitted) : ~MatchingDC(i)

\* The call has returned the timeout error.
TimeoutReturned ==
    /\ pc = "done"
    /\ ret = RetErr("Timed out waiting for annotation to update")

\* The call has returned, as success, an event with the expected annotation.
MatchReturned ==
    /\ pc = "done"
    /\ ret.kind = "ok"
    /\ ret.idx \in 1..Len(emitted) /\ MatchingDC(ret.idx)

\* The statement of C3 as it is claimed: once the timer has fired with the
\* stream open and no event with the expected annotation arrived, the call
\* returns nothing but the timeout error.
C3_TimeoutReported ==
    [](TimedOutOpen => [](pc = "done" => TimeoutReturned))

\* C3: once the timer of WaitAndGetDC has fired with the stream open and no
\* event with the expected annotation arrived, the call never returns a
\* stream-termination error or any other error than the timeout error, and
\* it returns success only with an event of the expected annotation, which
\* arrived after the timer fired and was received before the select took
\* the timeout; when no such event arrives it returns the timeout error.
C3_TimeoutOrLateMatch ==
    [](TimedOutOpen => [](pc = "done" => (TimeoutReturned \/ MatchReturned)))

C3_Witness ==
    /\ op = "DC" /\ TimeoutReturned /\ timerFired /\ ~closed
    /\ Len(emitted) = 2 /\ consumed = 1
    /\ \A i \in 1..Len(emitted) : ~MatchingDC(i)

\* Reached: the call has returned as success the event it received after
\* its timer had fired; the two events before it had other annotations.
LateMatchReturned ==
    /\ op = "DC" /\ MatchReturned /\ timerFired /\ ~closed
    /\ Len(emitted) = 3 /\ ret.idx = 3
    /\ \A i \in 1..2 : ~MatchingDC(i)

\* Event number i is a build in a terminal phase.
TerminalBuild(i) ==
    /\ emitted[i].obj = "res"
    /\ emitted[i].val \in {"Complete", "Failed", "Cancelled", "Error"}

\* C4: WaitForBuildToFinish returns success only when the first terminal
\* phase it received is Complete, fails when it is Failed, Cancelled or
\* Error, and fails when the stream closed before any terminal phase.
C4_BuildOutcome ==
    (op = "Build" /\ pc = "done" /\ ~watchErr) =>
        IF \E i \in 1..consumed : TerminalBuild(i)
        THEN LET f == CHOOSE i \in 1..consumed :
                        TerminalBuild(i) /\ \A j \in 1..(i - 1) : ~TerminalBuild(j)
             IN  IF emitted[f].val = "Complete" THEN ret.kind = "ok"
                                                ELSE ret.kind = "err"
        ELSE ret.kind = "err"

\* C5: in WaitAndGetDC, WaitAndGetPod, WaitAndGetSecret and
\* WaitForBuildToFinish a subscription that was opened is stopped when the
\* call has ended, and a failed Watch call ends in a returned error with no
\* Stop on the subscription that was never opened.
C5_SubscriptionReleased ==
    (op \in {"DC", "Pod", "Secret", "Build"} /\ pc # "call") =>
        /\ (~watchErr /\ pc # "wait") => stops = 1
        /\ watchErr => (pc = "done" /\ ret.kind = "err" /\ stops = 0)

\* C6: a call of WaitAndGetPod whose subscription was opened returns once,
\* and what it returns is a running pod that the stream delivered, or the
\* timeout error after the timer fired, or the error of a closed stream, of
\* a failed or unknown phase, or of an object that is no pod.
C6_PodOneOutcome ==
    (op = "Pod" /\ ~watchErr) =>
        /\ returns = (IF pc = "done" THEN 1 ELSE 0)
        /\ pc = "done" =>
            \/ /\ ret.kind = "ok"
               /\ ret.idx \in 1..consumed
               /\ emitted[ret.idx].obj = "res"
               /\ emitted[ret.idx].val = "Running"
            \/ /\ ret.kind = "err"
               /\ ret.err = "waited but couldn't find running pod"
               /\ timerFired
            \/ /\ ret.kind = "err"
               /\ ret.err = "watch channel was closed"
               /\ closed
            \/ /\ ret.kind = "err"
               /\ ret.err = "pod status"
               /\ emitted[consumed].val \in {"Failed", "Unknown"}
            \/ /\ ret.kind = "err"
               /\ ret.err = "unable to convert event object to Pod"
               /\ emitted[consumed].obj # "res"

C6_Witness ==
    /\ op = "Pod" /\ pc = "done" /\ ret.kind = "ok"
    /\ timerFired /\ closed /\ gpc = "exit"

\* C7: every wait operation eventually ends, whatever the stream does.
C7_EveryWaitReturns == <>(pc \in {"done", "panic"})

----------------------------------------------------------------------------
\* Properties of the update of a DeploymentConfig.

\* The mounts of the primary container of a dc: the first one of the
\* component's name.
PrimaryMounts(dc) ==
    LET I == {i \in 1..Len(dc.containers) : dc.containers[i].name = Name}
    IN  IF I = {} THEN <<>>
        ELSE dc.containers[CHOOSE i \in I : \A j \in I : i <= j].mounts

\* How many entries of a list have the name nm.
CountNamed(q, nm) == Cardinality({i \in DOMAIN q : q[i].name = nm})

\* C8: when PatchCurrentDC has copied, the dc holds every volume of the
\* current dc and every mount of the current primary container but those of
\* the supervisord volume, and it has taken no entry of the supervisord
\* volume from the current dc.
C8_AllVolumesAndMountsCopied ==
    (ppc = "update") =>
        /\ \A v \in Range(cur.volumes) :
                v.name # supervisordVolumeName => v \in Range(desired.volumes)
        /\ \A m \in Range(PrimaryMounts(cur)) :
                m.name # supervisordVolumeName => m \in Range(PrimaryMounts(desired))
        /\ CountNamed(desired.volumes, supervisordVolumeName)
                = (IF pop = "ToSupervisor" THEN 1 ELSE 0)
        /\ CountNamed(PrimaryMounts(desired), supervisordVolumeName)
                = (IF pop = "ToSupervisor" THEN 1 ELSE 0)

\* A dc in build mode: no volume and no mount of supervisord or of the data
\* volume, no init container.
BuildMode(dc) ==
    LET odo == {supervisordVolumeName, getAppRootVolumeName(Name)}
    IN  /\ dc.exists
        /\ \A v \in Range(dc.volumes) : v.name \notin odo
        /\ \A i \in DOMAIN dc.containers :
                \A m \in Range(dc.containers[i].mounts) : m.name \notin odo
        /\ dc.initc = <<>>

\* C9: UpdateDCToSupervisor and then UpdateDCToGit, both successful, on a dc
\* in build mode leave the set of volumes and the set of mounts of the
\* primary container as they were, and the dc in build mode.
C9_RoundTripKeepsVolumes ==
    (/\ BuildMode(dc0)
     /\ Len(hist) = 2
     /\ hist[1] = [op |-> "ToSupervisor", ok |-> TRUE]
     /\ hist[2] = [op |-> "ToGit", ok |-> TRUE]) =>
        /\ Range(dcR.volumes) = Range(dc0.volumes)
        /\ Range(PrimaryMounts(dcR)) = Range(PrimaryMounts(dc0))
        /\ BuildMode(dcR)

\* The dc lacks the data volume, or no container mounts it.
LacksDataVolume(dc) ==
    \/ CountNamed(dc.volumes, getAppRootVolumeName(Name)) = 0
    \/ \A i \in DOMAIN dc.containers :
            CountNamed(dc.containers[i].mounts, getAppRootVolumeName(Name)) = 0

\* C10: when the dc that UpdateDCToGit hands to the handler lacks the data
\* volume or its mount, the operation has returned an error, has made no
\* Update call, and the cluster's DeploymentConfig and claims are those of
\* the time of the call.
C10_RevertWithoutDataVolumeFails ==
    (pop = "ToGit" /\ cur.exists /\ desired.exists /\ LacksDataVolume(desired)) =>
        /\ ppc = "done"
        /\ ~pres.ok
        /\ updates = 0
        /\ dcR = dcAtCall
        /\ pvcs = pvcsAtCall

C10_Witness ==
    /\ pop = "ToGit" /\ ppc = "done"
    /\ cur.exists /\ desired.exists
    /\ CountNamed(desired.volumes, getAppRootVolumeName(Name)) = 1
    /\ CountNamed(PrimaryMounts(desired), getAppRootVolumeName(Name)) = 0
    /\ getAppRootVolumeName(Name) \in pvcs
    /\ pres.err = "unable to find volume mount in dc"

----------------------------------------------------------------------------
\* Properties of PatchCurrentDC with its wait.

\* PatchCurrentDC has returned nil to its caller.
PatchReturnedNil ==
    \/ ppc = "pvc"
    \/ ppc = "done" /\ pop = "Patch" /\ pres.ok
    \/ ppc = "done" /\ pop \in PatchOps
          /\ (pres.ok \/ pres.err \in {"unable to create PVC",
                                       "unable to delete S2I data PVC"})

\* The wait of PatchCurrentDC received a snapshot whose source type is the
\* one of the dc that was handed to PatchCurrentDC.
ObservedDesired ==
    /\ ret.kind = "ok"
    /\ ret.idx \in 1..consumed
    /\ emitted[ret.idx].obj = "res"
    /\ emitted[ret.idx].val = desired.ann

\* PatchCurrentDC returns nil only after an accepted Update and an observed
\* snapshot of the desired source type.
SuccessOnlyAfterObservedUpdate ==
    PatchReturnedNil => (updates = 1 /\ dcR.rv = cur.rv + 1 /\ ObservedDesired)

\* C11: PatchCurrentDC returns nil only after its Update was accepted and its
\* wait received a snapshot whose source type is the desired one; when the
\* wait ends without such a snapshot, PatchCurrentDC returns the error
\* "unable to wait for DeploymentConfig to update".
C11_SuccessOnlyAfterObservedUpdate ==
    /\ SuccessOnlyAfterObservedUpdate
    /\ (pc = "returned" /\ ~ObservedDesired) =>
            /\ ppc = "done"
            /\ pres = Err("unable to wait for DeploymentConfig to update")

\* C12: a direct call of PatchCurrentDC that finds no DeploymentConfig of the
\* name ends with the error of the Get call, has made no Update call, and
\* leaves the cluster without a DeploymentConfig and with the claims it had.
C12_MissingDCIsAnError ==
    (pop = "Patch" /\ ~dcAtCall.exists /\ ppc # "patch") =>
        /\ ppc = "done"
        /\ pres = Err("unable to get DeploymentConfig")
        /\ updates = 0
        /\ dcR = dcAtCall
        /\ pvcs = pvcsAtCall

C12_Witness ==
    /\ pop = "Patch" /\ ppc = "done"
    /\ ~dcAtCall.exists /\ ~dcR.exists
    /\ desired.ann = "local"
    /\ pres = Err("unable to get DeploymentConfig")

\* The ports of the primary container of a dc.
PrimaryPorts(dc) == findContainer(dc.containers, Name).c.ports

\* UpdateDCToSupervisor has written its descriptor to the cluster.
SupervisorWritten ==
    /\ pop = "ToSupervisor"
    /\ ppc \in {"wait", "pvc"}
    /\ updates = 1

\* C13 as stated: after UpdateDCToSupervisor has written the descriptor, the
\* ports of its primary container are the exposed ports of the resolved
\* image.
C13_PortsOfResolvedImage ==
    SupervisorWritten => PrimaryPorts(dcR) = imagePorts

\* C13 as the code has it: after UpdateDCToSupervisor has written the
\* descriptor, the ports of its primary container are the ports of the
\* container that was live when the operation was called.
C13_PortsOfLiveContainer ==
    SupervisorWritten => PrimaryPorts(dcR) = PrimaryPorts(dcAtCall)

C13_Witness ==
    /\ SupervisorWritten
    /\ imagePorts = <<8080, 8443>>
    /\ PrimaryPorts(dcAtCall) = <<8080>>
    /\ PrimaryPorts(dcR) = <<8080>>

----------------------------------------------------------------------------
\* uniqueAppendOrOverwriteEnvVars called on every pair of lists, and called
\* again on its result with the same new variables.

EnvNames == {"A", "B"}
EnvValues == {"1", "2"}
EnvVars == {EnvVar(n, v) : n \in EnvNames, v \in EnvValues}
EnvLists == UNION {[1..k -> EnvVars] : k \in 0..MaxEnvs}

InitMerge ==
    /\ envIn \in EnvLists
    /\ envNew \in EnvLists
    /\ envOut = <<>>
    /\ envAgain = <<>>
    /\ mpc = "call"

\* retVal = uniqueAppendOrOverwriteEnvVars(existingEnvs, envVars...)
Merge ==
    /\ mpc = "call"
    /\ envOut' \in Orderings(uniqueAppendOrOverwriteEnvVars(envIn, envNew))
    /\ mpc' = "merged"
    /\ UNCHANGED <<envIn, envNew, envAgain>>
    /\ UNCHANGED <<watchVars, patchVars, removeVars, copyVars>>

\* The same variables merged into the result once more.
MergeAgain ==
    /\ mpc = "merged"
    /\ envAgain' \in Orderings(uniqueAppendOrOverwriteEnvVars(envOut, envNew))
    /\ mpc' = "again"
    /\ UNCHANGED <<envIn, envNew, envOut>>
    /\ UNCHANGED <<watchVars, patchVars, removeVars, copyVars>>

NextMerge ==
    \/ Merge
    \/ MergeAgain

MergeInit == IdleWatch /\ IdlePatch /\ IdleRemove /\ IdleCopy /\ InitMerge

MergeSpec == MergeInit /\ [][NextMerge]_vars

\* The names of a list, and the last entry of a name in a list.
NamesOf(q) == {q[i].name : i \in DOMAIN q}
LastOf(q, n) ==
    q[CHOOSE i \in DOMAIN q : q[i].name = n /\ \A j \in DOMAIN q : q[j].name = n => j <= i]

\* C14: the result of uniqueAppendOrOverwriteEnvVars has exactly one entry
\* for every name of the two lists and no other entry; a name of the new
\* list has the value the new list gives it (its last entry), a name that
\* is only in the existing list keeps the value the existing list gives it;
\* and merging the same new variables into the result again gives the same
\* set of entries.
C14_MergeIsUniqueAndIdempotent ==
    /\ mpc \in {"merged", "again"} =>
        /\ NamesOf(envOut) = NamesOf(envIn) \cup NamesOf(envNew)
        /\ \A n \in NamesOf(envOut) :
                Cardinality({i \in DOMAIN envOut : envOut[i].name = n}) = 1
        /\ \A n \in NamesOf(envNew) : LastOf(envOut, n) = LastOf(envNew, n)
        /\ \A n \in NamesOf(envIn) \ NamesOf(envNew) :
                LastOf(envOut, n) = LastOf(envIn, n)
    /\ mpc = "again" =>
        /\ Range(envAgain) = Range(envOut)
        /\ Len(envAgain) = Len(envOut)

C14_Witness ==
    /\ mpc = "again"
    /\ envIn = <<EnvVar("A", "1"), EnvVar("B", "1")>>
    /\ envNew = <<EnvVar("A", "2"), EnvVar("A", "2")>>
    /\ envOut = <<EnvVar("B", "1"), EnvVar("A", "2")>>
    /\ envAgain = <<EnvVar("A", "2"), EnvVar("B", "1")>>

----------------------------------------------------------------------------
\* RemoveVolumeFromDeploymentConfig(pvc, dcName): a fetch, a change and an
\* Update under retry.RetryOnConflict(retry.DefaultBackoff, ...), while
\* another client writes the same DeploymentConfig.

\* Steps of retry.DefaultBackoff: the calls RetryOnConflict makes at most.
DefaultBackoffSteps == 4

\* The claim whose volume is removed.
RemovedPVC == "pvc1"

\* The volumes and mounts of the DeploymentConfigs the call is made on: the
\* volume of the claim with its mount, alone, beside the volume of another
\* claim or behind the EmptyDir of supervisord; the volume without a mount;
\* two volumes of the claim; no volume of the claim; the volume mounted at
\* two paths.
RemoveShapes ==
    {[vs |-> <<Vol("u1", RemovedPVC)>>,
      ms |-> <<Mount("u1", "/data/u1")>>],
     [vs |-> <<Vol("u1", RemovedPVC), Vol("u2", "pvc2")>>,
      ms |-> <<Mount("u2", "/data/u2"), Mount("u1", "/data/u1")>>],
     [vs |-> <<Vol(supervisordVolumeName, ""), Vol("u1", RemovedPVC)>>,
      ms |-> <<Mount("u1", "/data/u1")>>],
     [vs |-> <<Vol("u1", RemovedPVC)>>,
      ms |-> <<>>],
     [vs |-> <<Vol("u1", RemovedPVC), Vol("u1b", RemovedPVC)>>,
      ms |-> <<Mount("u1", "/data/u1"), Mount("u1b", "/data/u1b")>>],
     [vs |-> <<Vol("u2", "pvc2")>>,
      ms |-> <<Mount("u2", "/data/u2")>>],
     [vs |-> <<Vol("u1", RemovedPVC)>>,
      ms |-> <<Mount("u1", "/data/u1"), Mount("u1", "/data/other")>>]}

RemoveDCs ==
    {[exists |-> TRUE, name |-> Name, rv |-> 1, ann |-> "local",
      containers |-> <<Container(Name, <<8080>>, {EnvVar("A", "1")}, sh.ms)>>,
      volumes |-> sh.vs, initc |-> <<>>] : sh \in RemoveShapes}
    \cup {NoDC}

InitRemove ==
    /\ dcR \in RemoveDCs
    /\ pvcs = {vol.claim : vol \in Range(dcR.volumes)} \ {""}
    /\ pop = "none"
    /\ ppc = "idle"
    /\ cur = NoDC
    /\ desired = NoDC
    /\ pending = NoDC
    /\ pres = NoRes
    /\ updates = 0
    /\ dcAtCall = dcR
    /\ pvcsAtCall = pvcs
    /\ hist = <<>>
    /\ dc0 = dcR
    /\ imagePorts = <<>>
    /\ writes = 0
    /\ linkpc = "none"
    /\ rpc = "call"
    /\ attempts = 0
    /\ rdc = NoDC
    /\ rupdates = 0
    /\ lastConflictErr = ""
    /\ rres = NoRemoveRes

\* getVolumeNamesFromPVC: the names of the volumes of the claim, in order; a
\* volume without a claim is skipped.
getVolumeNamesFromPVC(pvc, dc) ==
    LET bound(vol) == vol.claim # "" /\ vol.claim = pvc
    IN  [i \in 1..Len(SelectSeq(dc.volumes, bound)) |->
            SelectSeq(dc.volumes, bound)[i].name]

\* The check of len(volumeNames) in RemoveVolumeFromDeploymentConfig: "" when
\* there is exactly one volume of the claim.
\* (numVolumesErr_mut: more than one volume is accepted.)
numVolumesErr_mut(numVolumes) ==
    IF numVolumes = 0 THEN "no volume found for PVC, expected one" ELSE ""
numVolumesErr(numVolumes) ==
    IF numVolumes = 0 THEN "no volume found for PVC, expected one"
    ELSE IF numVolumes > 1 THEN "found more than one volume for PVC, expected one"
    ELSE ""

\* The function handed to RetryOnConflict between its fetch and its Update
\* call, on the dc it fetched: (error, dc). The error "panic" stands for the
\* run-time panic of the removal loops, which no frame of the call recovers.
removeVolume(pvc, dc) ==
    LET volumeNames == getVolumeNamesFromPVC(pvc, dc)
        nerr == numVolumesErr(Len(volumeNames))
        v == removeVolumeFromDC(volumeNames[1], dc)
        m == removeVolumeMountFromDC(volumeNames[1], v.dc)
    IN  IF nerr # "" THEN [err |-> nerr, dc |-> dc]
        ELSE IF v.panic THEN [err |-> "panic", dc |-> dc]
        ELSE IF ~v.found THEN [err |-> "could not find volume", dc |-> v.dc]
        ELSE IF m.panic THEN [err |-> "panic", dc |-> dc]
        ELSE IF ~m.found THEN [err |-> "could not find volumeMount", dc |-> m.dc]
        ELSE [err |-> "", dc |-> m.dc]

\* The function handed to RetryOnConflict, up to its Update call: (error, dc).
removeVolumeAttempt(pvc, dcName) ==
    LET g == GetDeploymentConfigFromName(dcName)
    IN  IF g.err # "" THEN [err |-> "unable to get Deployment Config", dc |-> NoDC]
        ELSE removeVolume(pvc, g.dc)

\* RemoveVolumeFromDeploymentConfig returns: a nil retryErr is success, any
\* other is wrapped in "updating Deployment Config <dcName> failed".
RemoveEnd(retryErr) ==
    /\ rpc' = "done"
    /\ rres' = IF retryErr = ""
               THEN [ok |-> TRUE, err |-> "", name |-> "", cause |-> ""]
               ELSE [ok |-> FALSE, err |-> "updating Deployment Config failed",
                     name |-> Name, cause |-> retryErr]

\* wait.ExponentialBackoff after a call of the function that ended in a
\* conflict: the next step, or ErrWaitTimeout, which RetryOnConflict replaces
\* by the last conflict error.
\* (AfterConflict_mut: one more step whatever the number of steps made.)
AfterConflict_mut(err) ==
    /\ rpc' = "attempt"
    /\ lastConflictErr' = err
    /\ UNCHANGED rres
AfterConflict(err) ==
    /\ lastConflictErr' = err
    /\ IF attempts < DefaultBackoffSteps
       THEN rpc' = "attempt" /\ UNCHANGED rres
       ELSE RemoveEnd(err)

\* One call of the function by RetryOnConflict, up to its Update call. An
\* error that is no conflict ends the retries.
\* (RemoveAttempt_mut: the dc is fetched by the first call only, and the
\* later ones hand the same object to Update.)
RemoveAttempt_mut ==
    /\ rpc \in {"call", "attempt"}
    /\ attempts' = attempts + 1
    /\ LET a == removeVolumeAttempt(RemovedPVC, Name)
       IN  IF attempts = 0
           THEN /\ rdc' = a.dc
                /\ IF a.err = "panic"
                   THEN rpc' = "panic" /\ UNCHANGED rres
                   ELSE IF a.err # ""
                   THEN RemoveEnd(a.err)
                   ELSE rpc' = "update" /\ UNCHANGED rres
           ELSE /\ rdc' = rdc
                /\ rpc' = "update" /\ UNCHANGED rres
    /\ UNCHANGED <<rupdates, lastConflictErr>>
    /\ UNCHANGED <<watchVars, patchVars, mergeVars, copyVars>>
RemoveAttempt ==
    /\ rpc \in {"call", "attempt"}
    /\ attempts' = attempts + 1
    /\ LET a == removeVolumeAttempt(RemovedPVC, Name)
       IN  /\ rdc' = a.dc
           /\ IF a.err = "panic"
              THEN rpc' = "panic" /\ UNCHANGED rres
              ELSE IF a.err # ""
              THEN RemoveEnd(a.err)
              ELSE rpc' = "update" /\ UNCHANGED rres
    /\ UNCHANGED <<rupdates, lastConflictErr>>
    /\ UNCHANGED <<watchVars, patchVars, mergeVars, copyVars>>

\* The Update call of an attempt: accepted when the resourceVersion is the
\* current one, a conflict when it is not, and an error that is no conflict,
\* which ends the retries, when the DeploymentConfig is gone.
RemoveUpdate ==
    /\ rpc = "update"
    /\ rupdates' = rupdates + 1
    /\ IF ~dcR.exists
       THEN /\ RemoveEnd("not found")
            /\ UNCHANGED <<dcR, lastConflictErr>>
       ELSE IF dcR.rv = rdc.rv
       THEN /\ dcR' = [rdc EXCEPT !.rv = @ + 1]
            /\ RemoveEnd("")
            /\ UNCHANGED lastConflictErr
       ELSE /\ AfterConflict("conflict")
            /\ UNCHANGED dcR
    /\ UNCHANGED <<attempts, rdc>>
    /\ UNCHANGED <<pvcs, pop, ppc, cur, desired, pending, pres, updates,
                   dcAtCall, pvcsAtCall, hist, dc0, imagePorts, writes, linkpc>>
    /\ UNCHANGED <<watchVars, mergeVars, copyVars>>

----------------------------------------------------------------------------
\* The other public functions of the client that write the DeploymentConfig
\* and the claims. Each operator gives what the cluster can hold after one
\* call of the function by another caller, when it holds the dc d and the
\* claims p and the cluster accepts the write.

Cluster(d, p) == [dc |-> d, pvcs |-> p]

\* An accepted Update or Create: the cluster gives a new resourceVersion.
Stored(d) == [d EXCEPT !.rv = @ + 1]

\* A deleted DeploymentConfig; the resourceVersions of the cluster go on.
Gone(d) == IF d.exists THEN [NoDC EXCEPT !.rv = d.rv + 1] ELSE d

\* The claims the other callers create and delete.
ClaimNames == {"pvc1", getAppRootVolumeName(Name)}

\* util.GenerateRandomString as used by generateVolumeNameFromPVC.
RandomStrings == {"r1", "r2"}

generateVolumeNameFromPVC(pvc, random) == pvc \o "-" \o random \o "-volume"

\* UpdateDCAnnotations: the annotations are replaced.
UpdateDCAnnotations(d, p) ==
    IF ~d.exists THEN {}
    ELSE {Cluster(Stored([d EXCEPT !.ann = a]), p) : a \in SourceTypes}

\* SetupForSupervisor: annotations, the copy init container, the data volume
\* and its mount on the first container, then the claim, which CreatePVC may
\* fail to create.
SetupForSupervisor(d, p) ==
    IF ~d.exists \/ d.containers = <<>> THEN {}
    ELSE LET n == Stored(addBootstrapVolumeMount(
                            addBootstrapVolume(
                                addBootstrapVolumeCopyInitContainer(
                                    [d EXCEPT !.ann = "local"], d.name),
                                d.name),
                            d.name))
         IN  {Cluster(n, p), Cluster(n, p \cup {getAppRootVolumeName(d.name)})}

\* AddPVCToDeploymentConfig: a volume of a generated name bound to the claim,
\* and its mount on the first container.
AddPVCToDeploymentConfig(d, p) ==
    IF ~d.exists \/ d.containers = <<>> THEN {}
    ELSE {Cluster(Stored([d EXCEPT
                            !.volumes = Append(@, Vol(vn, "pvc1")),
                            !.containers[1].mounts = Append(@, Mount(vn, "/data/new"))]),
                  p) :
            vn \in {generateVolumeNameFromPVC("pvc1", r) : r \in RandomStrings}}

\* AddEnvironmentVariablesToDeploymentConfig: the variables are appended to
\* those of the only container.
AddEnvironmentVariablesToDeploymentConfig(d, p) ==
    IF ~d.exists \/ Len(d.containers) # 1 THEN {}
    ELSE {Cluster(Stored([d EXCEPT !.containers[1].env = @ \cup {EnvVar("B", "2")}]), p)}

\* Delete: the DeploymentConfig and the claims of the labels are deleted;
\* each DeleteCollection call can fail and leave its resources.
Delete(d, p) ==
    {Cluster(d2, p2) : d2 \in {d, Gone(d)}, p2 \in {p, {}}} \ {Cluster(d, p)}

\* NewAppS2I: the Create call is accepted when the cluster holds no
\* DeploymentConfig of the name.
NewAppS2I(d, p) ==
    IF d.exists THEN {}
    ELSE {Cluster([generateGitDeploymentConfig(<<8080>>, {}) EXCEPT !.rv = d.rv + 1], p)}

\* BootstrapSupervisoredS2I: the same with the supervisord dc, then the claim.
BootstrapSupervisoredS2I(d, p) ==
    IF d.exists THEN {}
    ELSE LET dc == generateSupervisordDeploymentConfig(
                        <<8080>>, uniqueAppendOrOverwriteEnvVars(<<>>, bootstrapEnvs))
             n == [addBootstrapVolumeMount(
                       addBootstrapVolume(
                           addBootstrapSupervisordInitContainer(
                               addBootstrapVolumeCopyInitContainer(dc, Name), Name),
                           Name),
                       Name) EXCEPT !.rv = d.rv + 1]
         IN  {Cluster(n, p), Cluster(n, p \cup {getAppRootVolumeName(Name)})}

CreatePVC(d, p) == {Cluster(d, p \cup {n}) : n \in ClaimNames \ p}

DeletePVC(d, p) == {Cluster(d, p \ {n}) : n \in ClaimNames \cap p}

\* DeleteProject: the project is deleted, and with it the cluster deletes the
\* DeploymentConfig and the claims it holds, one after the other.
DeleteProject(d, p) ==
    {Cluster(d2, p2) : d2 \in {d, Gone(d)}, p2 \in SUBSET p} \ {Cluster(d, p)}

\* RemoveVolumeFromDeploymentConfig of another caller, for a claim the dc has
\* a volume of: the Update of an attempt that fetched d.
OtherRemoveVolumeFromDeploymentConfig(d, p) ==
    IF ~d.exists THEN {}
    ELSE {Cluster(Stored(removeVolume(pvc, d).dc), p) :
            pvc \in {c \in {vol.claim : vol \in Range(d.volumes)} :
                        c # "" /\ removeVolume(c, d).err = ""}}

\* PatchCurrentDC of another caller with the dc it was given and its handler,
\* on the current dc d: the object its Update stores, none when it returns
\* an error or panics before the Update.
patchWrites(o, dc, d) ==
    LET f == findContainer(d.containers, Name)
        h == prePatchDCHandler(o, copyVolumesAndVolumeMounts(dc, d, f.c))
    IN  IF ~d.exists \/ d.name # Name \/ ~f.found \/ h.err # "" THEN {}
        ELSE {Stored(patchedDC(d, h.dc))}

\* PatchCurrentDC called by another caller with a dc of its own and no
\* handler.
OtherPatchCurrentDC(d, p) ==
    {Cluster(n, p) :
        n \in patchWrites("ToSupervisor", generateGitDeploymentConfig(<<8080>>, {}), d)}

\* UpdateDCToGit of another caller up to the Update of its PatchCurrentDC:
\* the dc is generated from its first fetch, which saw the dc first, and
\* patched on its second, which saw d. The claim is deleted by a later write.
OtherUpdateDCToGit(first, d, p) ==
    LET f == findContainer(first.containers, Name)
    IN  IF ~first.exists \/ ~f.found THEN {}
        ELSE {Cluster(n, p) :
                n \in patchWrites("ToGit",
                          generateGitDeploymentConfig(f.c.ports, f.c.env), d)}

\* UpdateDCToSupervisor of another caller, the same way. The claim is
\* created by a later write.
OtherUpdateDCToSupervisor(first, d, p) ==
    LET f == findContainer(first.containers, Name)
    IN  IF ~first.exists \/ ~f.found THEN {}
        ELSE {Cluster(n, p) :
                n \in UNION {patchWrites("ToSupervisor", supervisorDC(f.c, ports), d) :
                                ports \in ImageExposedPorts}}

\* What one write of another caller can leave on the cluster. The first
\* fetch of its UpdateDCToGit or UpdateDCToSupervisor saw the present dc or
\* the one the cluster held at the start.
OtherWrites(d, p) ==
    UpdateDCAnnotations(d, p) \cup SetupForSupervisor(d, p)
        \cup AddPVCToDeploymentConfig(d, p)
        \cup AddEnvironmentVariablesToDeploymentConfig(d, p)
        \cup Delete(d, p) \cup DeleteProject(d, p)
        \cup NewAppS2I(d, p) \cup BootstrapSupervisoredS2I(d, p)
        \cup CreatePVC(d, p) \cup DeletePVC(d, p)
        \cup OtherRemoveVolumeFromDeploymentConfig(d, p)
        \cup OtherPatchCurrentDC(d, p)
        \cup UNION {OtherUpdateDCToGit(first, d, p) \cup
                    OtherUpdateDCToSupervisor(first, d, p) : first \in {d, dc0}}

\* One write of another caller, before the operation is called or at any
\* point of it until it has returned.
OtherWriter ==
    /\ writes < MaxWrites
    /\ rpc \notin {"done", "panic"} /\ ppc \notin {"done", "panic"}
    /\ \E w \in OtherWrites(dcR, pvcs) :
        /\ dcR' = w.dc
        /\ pvcs' = w.pvcs
    /\ writes' = writes + 1
    /\ UNCHANGED <<pop, ppc, cur, desired, pending, pres, updates,
                   dcAtCall, pvcsAtCall, hist, dc0, imagePorts, linkpc>>
    /\ UNCHANGED <<watchVars, libVars>>

\* LinkSecret of another caller up to its Update: an EnvFrom entry is added
\* to the first container, which is no part of the dc of the model, and the
\* Update moves the resourceVersion.
LinkSecret ==
    /\ writes < MaxWrites
    /\ rpc \notin {"done", "panic"} /\ ppc \notin {"done", "panic"}
    /\ linkpc = "none"
    /\ dcR.exists /\ dcR.containers # <<>>
    /\ dcR' = Stored(dcR)
    /\ writes' = writes + 1
    /\ linkpc' = "instantiate"
    /\ UNCHANGED <<pvcs, pop, ppc, cur, desired, pending, pres, updates,
                   dcAtCall, pvcsAtCall, hist, dc0, imagePorts>>
    /\ UNCHANGED <<watchVars, libVars>>

\* The Instantiate call that ends LinkSecret: the new deployment is a second
\* write of the DeploymentConfig; the call can fail, and fails when the
\* DeploymentConfig is gone.
LinkSecretInstantiate ==
    /\ linkpc = "instantiate"
    /\ rpc \notin {"done", "panic"} /\ ppc \notin {"done", "panic"}
    /\ \E accepted \in BOOLEAN :
        dcR' = IF accepted /\ dcR.exists THEN Stored(dcR) ELSE dcR
    /\ linkpc' = "none"
    /\ UNCHANGED <<pvcs, pop, ppc, cur, desired, pending, pres, updates,
                   dcAtCall, pvcsAtCall, hist, dc0, imagePorts, writes>>
    /\ UNCHANGED <<watchVars, libVars>>

NextRemove ==
    \/ RemoveAttempt
    \/ OtherWriter
    \/ LinkSecret
    \/ LinkSecretInstantiate
    \/ RemoveUpdate

RemoveInit == IdleWatch /\ IdleMerge /\ IdleCopy /\ InitRemove

RemoveSpec == RemoveInit /\ [][NextRemove]_vars

\* A step in which the cluster rejects the Update of an attempt with a
\* conflict: another caller has written the DeploymentConfig since the fetch.
UpdateRejected ==
    /\ rpc = "update"
    /\ rupdates' = rupdates + 1
    /\ dcR.exists /\ dcR.rv # rdc.rv

\* What RemoveVolumeFromDeploymentConfig returns for the exhausted retries.
WrappedConflict ==
    [ok |-> FALSE, err |-> "updating Deployment Config failed",
     name |-> Name, cause |-> "conflict"]

\* C15: RemoveVolumeFromDeploymentConfig makes at most DefaultBackoffSteps
\* attempts and Update calls; an Update that is rejected with a conflict is
\* followed by another attempt while fewer than that many were made, and at
\* the last one by the return of the error "updating Deployment Config
\* <name> failed" that names the DeploymentConfig and wraps the conflict;
\* success is returned only in the step where the cluster accepts an Update.
C15_ConflictsEndInWrappedError ==
    /\ [](attempts <= DefaultBackoffSteps /\ rupdates <= attempts)
    /\ [][UpdateRejected =>
            IF attempts < DefaultBackoffSteps
            THEN rpc' = "attempt" /\ rres' = rres
            ELSE rpc' = "done" /\ rres' = WrappedConflict]_vars
    /\ [][(rres'.ok /\ ~rres.ok) =>
            /\ rpc = "update" /\ dcR.rv = rdc.rv
            /\ dcR' = [rdc EXCEPT !.rv = @ + 1]]_vars

\* Every Update of the call was rejected, each after a write of another
\* caller, and the call has returned the wrapped conflict.
C15_Witness ==
    /\ rpc = "done"
    /\ rupdates = DefaultBackoffSteps
    /\ attempts = DefaultBackoffSteps
    /\ rres = WrappedConflict
    /\ writes = DefaultBackoffSteps
    /\ dcR.rv = dc0.rv + DefaultBackoffSteps
    /\ Len(dc0.volumes) = 2

\* The number of volumes of a dc that are bound to the claim.
BindingsOf(pvc, dc) ==
    Cardinality({i \in DOMAIN dc.volumes : dc.volumes[i].claim = pvc})

\* A step that is one call of the function by RetryOnConflict.
AttemptStep == rpc \in {"call", "attempt"} /\ attempts' = attempts + 1

\* C16: an attempt that fetches a DeploymentConfig with more than one volume
\* bound to the claim makes no Update call and ends the retries: the call
\* returns the error of the check wrapped with the name, and the cluster's
\* DeploymentConfig is left as it is.
C16_SeveralBindingsIsAnError ==
    [][(AttemptStep /\ dcR.exists /\ BindingsOf(RemovedPVC, dcR) > 1) =>
            /\ rpc' = "done"
            /\ ~rres'.ok
            /\ rres'.cause = "found more than one volume for PVC, expected one"
            /\ rres'.name = Name
            /\ rupdates' = rupdates
            /\ dcR' = dcR]_vars

\* The DeploymentConfig had one volume of the claim at the call; another
\* caller bound a second one with AddPVCToDeploymentConfig after the first
\* fetch, the Update was rejected and the next attempt found two.
C16_Witness ==
    /\ rpc = "done"
    /\ BindingsOf(RemovedPVC, dc0) = 1
    /\ BindingsOf(RemovedPVC, dcR) = 2
    /\ attempts = 2 /\ rupdates = 1
    /\ ~rres.ok
    /\ rres.cause = "found more than one volume for PVC, expected one"

\* Reached too: the DeploymentConfig had two volumes of the claim at the
\* call, and the first attempt ended the call.
SeveralBindingsAtCall ==
    /\ rpc = "done"
    /\ BindingsOf(RemovedPVC, dc0) = 2
    /\ Len(PrimaryMounts(dc0)) = 2
    /\ attempts = 1 /\ rupdates = 0
    /\ ~rres.ok
    /\ dcR = dc0

\* Reached: the volume of the claim is mounted at two paths, and the loop of
\* removeVolumeMountFromDC has panicked on the second mount.
RemovePanicked ==
    /\ rpc = "panic"
    /\ attempts = 1 /\ rupdates = 0
    /\ Len(PrimaryMounts(dcR)) = 2
    /\ rres = NoRemoveRes

----------------------------------------------------------------------------
\* CopyFile(localPath, targetPodName, targetPath, copyFiles): the archive its
\* goroutine builds with makeTar and the command it runs in the pod.

\* A path is the sequence of its segments; path.Base is the last one.
Base(path) == path[Len(path)]

localPath == <<"home", "src">>
targetPath == <<"opt", "app-root">>

\* The names in a directory, in the order ioutil.ReadDir returns them.
NameOrder == <<"a", "b">>
Names == Range(NameOrder)

\* The directories whose entries are nodes of S.
DirsOver(S) == {Dir(f) : f \in UNION {[N -> S] : N \in SUBSET Names}}

\* What localPath can be: nothing, a file, a link, or a directory two levels
\* deep of files, links and directories, empty ones included.
TreeLeaves == {File, Link("a")}
TreesBelow == TreeLeaves \cup DirsOver(TreeLeaves \cup {Dir(<<>>)})
Trees == TreeLeaves \cup {Missing} \cup DirsOver(TreesBelow)

\* What copyFiles can name: a file, a directory, a link whose target is
\* gone, and a path at which there is nothing.
CopyFilePool ==
    {[path |-> <<"home", "src", "b.txt">>, node |-> File],
     [path |-> <<"home", "src", "d">>, node |-> Dir(<<>>)],
     [path |-> <<"home", "src", "l">>, node |-> Link("gone")],
     [path |-> <<"home", "src", "gone">>, node |-> Missing]}

CopyFileLists == UNION {[1..k -> CopyFilePool] : k \in 0..MaxFiles}

\* isSingleFileTransfer: one entry, os.Lstat succeeds on it, and it is no
\* directory.
\* (isSingleFileTransfer_mut: the same without the test of the directory.)
isSingleFileTransfer_mut(copyFiles) ==
    Len(copyFiles) = 1 /\ copyFiles[1].node.kind # "missing"
isSingleFileTransfer(copyFiles) ==
    /\ Len(copyFiles) = 1
    /\ copyFiles[1].node.kind # "missing"
    /\ copyFiles[1].node.kind # "dir"

\* checkFileExist: os.Stat, which follows a link, does not answer "not exist".
checkFileExist(f) ==
    /\ f.node.kind # "missing"
    /\ ~(f.node.kind = "link" /\ f.node.target = "gone")

Header(name, typeflag, linkname) ==
    [Name |-> name, Typeflag |-> typeflag, Linkname |-> linkname]

\* The header recursiveTar writes for a directory that has entries: none.
\* (dirHeader_mut: a header for that directory too.)
dirHeader_mut(destFile) == <<Header(destFile, "dir", "")>>
dirHeader(destFile) == <<>>

\* recursiveTar on the node at path.Join(srcBase, srcFile): (error, the
\* headers written, in order). tarEntries is its loop over the entries of a
\* directory, from the k-th name on.
RECURSIVE recursiveTar(_, _)
RECURSIVE tarEntries(_, _, _)
tarEntries(node, destFile, k) ==
    IF k > Len(NameOrder) THEN [err |-> "", hdrs |-> <<>>]
    ELSE IF NameOrder[k] \notin DOMAIN node.ch
    THEN tarEntries(node, destFile, k + 1)
    ELSE LET one == recursiveTar(node.ch[NameOrder[k]],
                                 Append(destFile, NameOrder[k]))
             rest == tarEntries(node, destFile, k + 1)
         IN  IF one.err # "" THEN one
             ELSE [err |-> rest.err, hdrs |-> one.hdrs \o rest.hdrs]
recursiveTar(node, destFile) ==
    CASE node.kind = "missing" -> [err |-> "lstat", hdrs |-> <<>>]
      [] node.kind = "dir" ->
            IF DOMAIN node.ch = {}
            THEN [err |-> "", hdrs |-> <<Header(destFile, "dir", "")>>]
            ELSE LET r == tarEntries(node, destFile, 1)
                 IN  [err |-> r.err, hdrs |-> dirHeader(destFile) \o r.hdrs]
      [] node.kind = "link" ->
            [err |-> "", hdrs |-> <<Header(destFile, "symlink", node.target)>>]
      [] node.kind = "file" ->
            [err |-> "", hdrs |-> <<Header(destFile, "reg", "")>>]

\* makeTar(srcPath, destPath, writer, files) on the node at srcPath; destFile
\* is path.Base(destPath). With files, the tree is archived when one of the
\* files exists, and nothing is written otherwise.
makeTar(srcNode, destFile, files) ==
    IF Len(files) # 0
    THEN IF \E i \in DOMAIN files : checkFileExist(files[i])
         THEN recursiveTar(srcNode, <<destFile>>)
         ELSE [err |-> "", hdrs |-> <<>>]
    ELSE recursiveTar(srcNode, <<destFile>>)

\* The makeTar call of the goroutine of CopyFile.
\* (copyFileTar_mut: the tree at localPath is archived in both modes.)
copyFileTar_mut(single, local, copyFiles) ==
    makeTar(local, Base(targetPath \o <<Base(localPath)>>), copyFiles)
copyFileTar(single, local, copyFiles) ==
    IF single
    THEN makeTar(copyFiles[1].node, Base(targetPath \o <<Base(copyFiles[1].path)>>), <<>>)
    ELSE makeTar(local, Base(targetPath \o <<Base(localPath)>>), copyFiles)

\* cmdArr of CopyFile.
copyFileCmd(single) ==
    <<"tar", "xf", "-", "-C", targetPath>>
        \o (IF ~single THEN <<"--strip", "1">> ELSE <<>>)

InitTar ==
    /\ cLocal \in Trees
    /\ cFiles \in CopyFileLists
    /\ cpc = "call"
    /\ cSingle = FALSE
    /\ cmdArr = <<>>
    /\ cPlan = <<>>
    /\ cFail = NoFail
    /\ wpc = "none"
    /\ cArchive = <<>>
    /\ cTrailer = FALSE
    /\ rdpc = "none"
    /\ exitCode = ""
    /\ cres = NoCopyRes

\* CopyFile up to the start of its goroutine.
CopyFile ==
    /\ cpc = "call"
    /\ cSingle' = isSingleFileTransfer(cFiles)
    /\ cpc' = "cmd"
    /\ wpc' = "start"
    /\ UNCHANGED <<cLocal, cFiles, cmdArr, cPlan, cFail, cArchive, cTrailer,
                   rdpc, exitCode, cres>>
    /\ UNCHANGED <<watchVars, patchVars, mergeVars, removeVars>>

\* CopyFile builds cmdArr and calls ExecCMDInContainer, which reads the pipe.
CopyFileExec ==
    /\ cpc = "cmd" /\ exitCode = ""
    /\ cmdArr' = copyFileCmd(cSingle)
    /\ cpc' = "exec"
    /\ rdpc' = "read"
    /\ UNCHANGED <<cLocal, cFiles, cSingle, cPlan, cFail, wpc, cArchive,
                   cTrailer, exitCode, cres>>
    /\ UNCHANGED <<watchVars, patchVars, mergeVars, removeVars>>

\* ExecCMDInContainer returns after the end of the stream, or when the
\* stream broke, and CopyFile returns what it returned: nil, or the error of
\* the stream.
CopyFileReturn ==
    /\ cpc = "exec" /\ rdpc \in {"eof", "err"} /\ exitCode = ""
    /\ \E e \in {"", "error while streaming command"} :
            /\ rdpc = "err" => e # ""
            /\ cres' = [returned |-> TRUE, err |-> e]
    /\ cpc' = "done"
    /\ UNCHANGED <<cLocal, cFiles, cSingle, cmdArr, cPlan, cFail, wpc,
                   cArchive, cTrailer, rdpc, exitCode>>
    /\ UNCHANGED <<watchVars, patchVars, mergeVars, removeVars>>

----------------------------------------------------------------------------
\* Properties of the archive and of the command of CopyFile.

\* The nodes of the tree at a path, each with the name its header has.
RECURSIVE NodesOf(_, _)
NodesOf(node, name) ==
    IF node.kind = "missing" THEN {}
    ELSE {[Name |-> name, node |-> node]}
         \cup UNION {NodesOf(node.ch[n], Append(name, n)) : n \in DOMAIN node.ch}

\* The header that stands for a node: its name, its kind, and for a link the
\* text of its target.
HeaderOf(x) ==
    Header(x.Name,
           CASE x.node.kind = "file" -> "reg"
             [] x.node.kind = "dir" -> "dir"
             [] x.node.kind = "link" -> "symlink",
           x.node.target)

\* The archive holds exactly one header for each node of X, and no other.
OneHeaderEach(X) ==
    /\ \A x \in X :
            Cardinality({i \in DOMAIN cArchive : cArchive[i] = HeaderOf(x)}) = 1
    /\ \A i \in DOMAIN cArchive : \E x \in X : cArchive[i] = HeaderOf(x)
    /\ Len(cArchive) = Cardinality(X)

\* A transfer of the tree at localPath whose archive is complete.
SubtreeDone == cpc # "call" /\ ~cSingle /\ wpc = "closed"

\* C17 as stated: the archive of a subtree transfer holds exactly one header
\* for every file, every directory and every link of the tree at localPath,
\* and a link's header has the text of its target.
C17_OneEntryPerNode ==
    SubtreeDone => OneHeaderEach(NodesOf(cLocal, <<Base(localPath)>>))

\* C17 as the code has it: when copyFiles is empty or names a file that
\* exists, the archive holds exactly one header for every file, every link
\* and every empty directory of the tree at localPath, a link's header has
\* the text of its target, and a directory that has entries has no header;
\* when copyFiles names only files that do not exist, the archive is empty.
C17_OneEntryPerLeaf ==
    SubtreeDone =>
        IF cFiles = <<>> \/ \E i \in DOMAIN cFiles : checkFileExist(cFiles[i])
        THEN OneHeaderEach({x \in NodesOf(cLocal, <<Base(localPath)>>) :
                                DOMAIN x.node.ch = {}})
        ELSE cArchive = <<>>

C17_Witness ==
    /\ SubtreeDone
    /\ cFiles = <<>>
    /\ cLocal = Dir([n \in {"a", "b"} |->
                        IF n = "a" THEN Dir([m \in {"a", "b"} |->
                                                IF m = "a" THEN Link("a") ELSE Dir(<<>>)])
                        ELSE File])
    /\ cArchive = <<Header(<<"src", "a", "a">>, "symlink", "a"),
                    Header(<<"src", "a", "b">>, "dir", ""),
                    Header(<<"src", "b">>, "reg", "")>>

\* The command carries --strip 1.
Strips == Len(cmdArr) = 7 /\ cmdArr[6] = "--strip" /\ cmdArr[7] = "1"

\* C18 as stated: the transfer is a single-file one exactly when copyFiles
\* has one entry that is no directory, and the command carries --strip 1
\* exactly when the transfer is not a single-file one.
C18_SingleIffOneNonDirectory ==
    (cpc \in {"exec", "done"}) =>
        /\ cSingle <=> (Len(cFiles) = 1 /\ cFiles[1].node.kind # "dir")
        /\ Strips <=> ~cSingle

\* C18 as the code has it: the transfer is a single-file one exactly when
\* copyFiles has one entry, something exists at that path, and it is no
\* directory; the command carries --strip 1 exactly when the transfer is
\* not a single-file one.
C18_SingleIffOneExistingNonDirectory ==
    (cpc \in {"exec", "done"}) =>
        /\ cSingle <=> (/\ Len(cFiles) = 1
                        /\ cFiles[1].node.kind \in {"file", "link"})
        /\ Strips <=> ~cSingle
        /\ SubSeq(cmdArr, 1, 5) = <<"tar", "xf", "-", "-C", targetPath>>

C18_Witness ==
    /\ cpc = "exec"
    /\ Len(cFiles) = 1 /\ cFiles[1].node.kind = "missing"
    /\ ~cSingle
    /\ Strips

\* C19: the complete archive of a single-file transfer holds one header, and
\* its name is the base name of the file.
C19_SingleFileOneEntry ==
    (cpc # "call" /\ cSingle /\ wpc = "closed") =>
        /\ Len(cArchive) = 1
        /\ cArchive[1].Name = <<Base(cFiles[1].path)>>
        /\ cArchive[1].Typeflag =
                (IF cFiles[1].node.kind = "link" THEN "symlink" ELSE "reg")
        /\ cTrailer

C19_Witness ==
    /\ cSingle /\ wpc = "closed"
    /\ cFiles[1].path = <<"home", "src", "b.txt">>
    /\ cArchive = <<Header(<<"b.txt">>, "reg", "")>>
    /\ cLocal.kind = "dir" /\ DOMAIN cLocal.ch = {"a", "b"}

----------------------------------------------------------------------------
\* CopyFile step by step: the goroutine that writes the archive into the
\* pipe, entry after entry, ExecCMDInContainer that reads the pipe, and the
\* file system calls of recursiveTar that can fail.

\* The trees at localPath.
PipeTrees ==
    {File,
     Missing,
     Dir([n \in {"a", "b"} |-> IF n = "a" THEN File ELSE Link("a")]),
     Dir([n \in {"a", "b"} |-> IF n = "a" THEN Dir([m \in {"a"} |-> File])
                                ELSE File]),
     Dir([n \in {"a", "b"} |-> IF n = "a" THEN Dir(<<>>) ELSE File])}

\* The lists copyFiles: none, one file, a directory and a path with nothing.
PipeFileLists ==
    {<<>>,
     <<[path |-> <<"home", "src", "b.txt">>, node |-> File]>>,
     <<[path |-> <<"home", "src", "d">>, node |-> Dir(<<>>)],
       [path |-> <<"home", "src", "gone">>, node |-> Missing]>>}

\* A failing file system call of recursiveTar: at the k-th entry, either
\* before its header is written (os.Lstat, ioutil.ReadDir, os.Readlink,
\* FileInfoHeader) or after it (os.Open, io.Copy, f.Close of a regular file).
Failures ==
    {NoFail} \cup [at : 1..MaxFailAt, how : {"lstat", "copy"}]

\* What the reader takes from the pipe when the command in the pod has
\* written a line on its stdout or stderr.
RemoteLine == Header(<<"tar: ", "time stamp in the future">>, "output", "")

\* The entries of the archive among what has gone through the pipe: what the
\* goroutine of CopyFile has written of it.
IsEntry(h) == h.Typeflag # "output"
Archived == SelectSeq(cArchive, IsEntry)

InitPipe ==
    /\ cLocal \in PipeTrees
    /\ cFiles \in PipeFileLists
    /\ cFail \in Failures
    /\ cpc = "call"
    /\ cSingle = FALSE
    /\ cmdArr = <<>>
    /\ cPlan = <<>>
    /\ wpc = "none"
    /\ cArchive = <<>>
    /\ cTrailer = FALSE
    /\ rdpc = "none"
    /\ exitCode = ""
    /\ cres = NoCopyRes

\* The goroutine enters makeTar: the entries recursiveTar comes to, in its
\* order, when no call fails.
MakeTarStart ==
    /\ wpc = "start" /\ exitCode = ""
    /\ cPlan' = copyFileTar(cSingle, cLocal, cFiles).hdrs
    /\ wpc' = "entry"
    /\ UNCHANGED <<cLocal, cFiles, cpc, cSingle, cmdArr, cFail, cArchive,
                   cTrailer, rdpc, exitCode, cres>>
    /\ UNCHANGED <<watchVars, patchVars, mergeVars, removeVars>>

\* recursiveTar fails before the header of the next entry: every such error
\* is returned at once, up to makeTar, whose deferred tarWriter.Close() runs.
TarEntryFail ==
    /\ wpc = "entry" /\ exitCode = ""
    /\ LET k == Len(Archived) + 1
       IN  \/ k <= Len(cPlan) /\ cFail = [at |-> k, how |-> "lstat"]
           \/ k > Len(cPlan) /\ copyFileTar(cSingle, cLocal, cFiles).err # ""
    /\ wpc' = "trailerErr"
    /\ UNCHANGED <<cLocal, cFiles, cpc, cSingle, cmdArr, cPlan, cFail,
                   cArchive, cTrailer, rdpc, exitCode, cres>>
    /\ UNCHANGED <<watchVars, patchVars, mergeVars, removeVars>>

\* tw.WriteHeader of the next entry: a write to the pipe, which ends when
\* the reader has taken it.
TarWriteHeader ==
    /\ wpc = "entry" /\ exitCode = "" /\ rdpc = "read"
    /\ LET k == Len(Archived) + 1
       IN  /\ k <= Len(cPlan)
           /\ cFail # [at |-> k, how |-> "lstat"]
           /\ cArchive' = Append(cArchive, cPlan[k])
           /\ wpc' = IF cPlan[k].Typeflag = "reg" THEN "body" ELSE "entry"
    /\ UNCHANGED <<cLocal, cFiles, cpc, cSingle, cmdArr, cPlan, cFail,
                   cTrailer, rdpc, exitCode, cres>>
    /\ UNCHANGED <<watchVars, patchVars, mergeVars, removeVars>>

\* os.Open, io.Copy and f.Close of a regular file, into the pipe.
TarCopyBody ==
    /\ wpc = "body" /\ exitCode = "" /\ rdpc = "read"
    /\ cFail # [at |-> Len(Archived), how |-> "copy"]
    /\ wpc' = "entry"
    /\ UNCHANGED <<cLocal, cFiles, cpc, cSingle, cmdArr, cPlan, cFail,
                   cArchive, cTrailer, rdpc, exitCode, cres>>
    /\ UNCHANGED <<watchVars, patchVars, mergeVars, removeVars>>

\* One of them fails and the error is returned at once. tarWriter.Close()
\* writes the end of the archive only when the entry has all the bytes its
\* header announces (a file of no byte), and gives up otherwise.
TarCopyFail ==
    /\ wpc = "body" /\ exitCode = ""
    /\ cFail = [at |-> Len(Archived), how |-> "copy"]
    /\ \E whole \in BOOLEAN :
            wpc' = IF whole THEN "trailerErr" ELSE "retErr"
    /\ UNCHANGED <<cLocal, cFiles, cpc, cSingle, cmdArr, cPlan, cFail,
                   cArchive, cTrailer, rdpc, exitCode, cres>>
    /\ UNCHANGED <<watchVars, patchVars, mergeVars, removeVars>>

\* recursiveTar returns nil.
TarEntriesDone ==
    /\ wpc = "entry" /\ exitCode = ""
    /\ Len(Archived) = Len(cPlan)
    /\ copyFileTar(cSingle, cLocal, cFiles).err = ""
    /\ wpc' = "trailer"
    /\ UNCHANGED <<cLocal, cFiles, cpc, cSingle, cmdArr, cPlan, cFail,
                   cArchive, cTrailer, rdpc, exitCode, cres>>
    /\ UNCHANGED <<watchVars, patchVars, mergeVars, removeVars>>

\* The deferred tarWriter.Close() of makeTar writes the end of the archive
\* into the pipe, and makeTar returns.
TarWriteTrailer ==
    /\ wpc \in {"trailer", "trailerErr"} /\ exitCode = "" /\ rdpc = "read"
    /\ cTrailer' = TRUE
    /\ wpc' = IF wpc = "trailer" THEN "ret" ELSE "retErr"
    /\ UNCHANGED <<cLocal, cFiles, cpc, cSingle, cmdArr, cPlan, cFail,
                   cArchive, rdpc, exitCode, cres>>
    /\ UNCHANGED <<watchVars, patchVars, mergeVars, removeVars>>

\* What the goroutine does with the error of makeTar: os.Exit(-1) when there
\* is one, which runs no deferred call, and the deferred writer.Close() when
\* there is none.
afterMakeTar(failed) ==
    IF failed THEN [wpc |-> "exit", exitCode |-> "-1"]
    ELSE [wpc |-> "closed", exitCode |-> ""]

\* The end of the goroutine. The end of the process ends the read of the
\* pipe with it.
GoroutineEnd ==
    /\ wpc \in {"ret", "retErr"} /\ exitCode = ""
    /\ LET a == afterMakeTar(wpc = "retErr")
       IN  /\ wpc' = a.wpc
           /\ exitCode' = a.exitCode
           /\ rdpc' = IF a.exitCode # "" /\ rdpc = "read" THEN "killed" ELSE rdpc
    /\ UNCHANGED <<cLocal, cFiles, cpc, cSingle, cmdArr, cPlan, cFail,
                   cArchive, cTrailer, cres>>
    /\ UNCHANGED <<watchVars, patchVars, mergeVars, removeVars>>

\* The read of the closed pipe returns io.EOF: the stream of the command
\* ends.
PipeEOF ==
    /\ rdpc = "read" /\ wpc = "closed" /\ exitCode = ""
    /\ rdpc' = "eof"
    /\ UNCHANGED <<cLocal, cFiles, cpc, cSingle, cmdArr, cPlan, cFail, wpc,
                   cArchive, cTrailer, exitCode, cres>>
    /\ UNCHANGED <<watchVars, patchVars, mergeVars, removeVars>>

\* The command in the pod has read the end of the archive and ends: the
\* stream of the command ends, the pipe open or not.
RemoteDone ==
    /\ rdpc = "read" /\ cTrailer /\ exitCode = ""
    /\ rdpc' = "eof"
    /\ UNCHANGED <<cLocal, cFiles, cpc, cSingle, cmdArr, cPlan, cFail, wpc,
                   cArchive, cTrailer, exitCode, cres>>
    /\ UNCHANGED <<watchVars, patchVars, mergeVars, removeVars>>

\* The client configuration, the connection or the stream fails, or the
\* command in the pod does.
ExecFail ==
    /\ rdpc = "read" /\ exitCode = ""
    /\ rdpc' = "err"
    /\ UNCHANGED <<cLocal, cFiles, cpc, cSingle, cmdArr, cPlan, cFail, wpc,
                   cArchive, cTrailer, exitCode, cres>>
    /\ UNCHANGED <<watchVars, patchVars, mergeVars, removeVars>>

\* The command in the pod writes a line on its stdout or stderr: the stream
\* copies it to its Stdout or Stderr writer, which is the writing end of the
\* pipe, and the reader takes it as the next bytes of stdin. This can happen
\* whenever the stream runs and the pipe is not closed: before the first
\* entry, between two entries, between the header and the body of a file,
\* and after the end of the archive. cTrailer tells that the end of the
\* archive has gone through the pipe, not where it is among the lines.
RemoteOutput ==
    /\ rdpc = "read" /\ exitCode = "" /\ wpc # "closed"
    /\ Len(cArchive) - Len(Archived) < MaxLines
    /\ cArchive' = Append(cArchive, RemoteLine)
    /\ UNCHANGED <<cLocal, cFiles, cpc, cSingle, cmdArr, cPlan, cFail, wpc,
                   cTrailer, rdpc, exitCode, cres>>
    /\ UNCHANGED <<watchVars, patchVars, mergeVars, removeVars>>

\* A step of the goroutine.
Producer ==
    \/ MakeTarStart
    \/ TarEntryFail
    \/ TarWriteHeader
    \/ TarCopyBody
    \/ TarCopyFail
    \/ TarEntriesDone
    \/ TarWriteTrailer
    \/ GoroutineEnd

NextPipe ==
    \/ CopyFile
    \/ CopyFileExec
    \/ MakeTarStart
    \/ TarEntryFail
    \/ TarWriteHeader
    \/ TarCopyBody
    \/ TarCopyFail
    \/ TarEntriesDone
    \/ TarWriteTrailer
    \/ GoroutineEnd
    \/ PipeEOF
    \/ RemoteDone
    \/ RemoteOutput
    \/ ExecFail
    \/ CopyFileReturn

PipeInit == IdleWatch /\ IdlePatch /\ IdleMerge /\ IdleRemove /\ InitPipe

PipeSpec == PipeInit /\ [][NextPipe]_vars

\* CopyFile on every tree and every list of files, when every file system
\* call on a node that exists succeeds and the command in the pod writes
\* nothing on its output.
NextTar ==
    \/ CopyFile
    \/ CopyFileExec
    \/ MakeTarStart
    \/ TarEntryFail
    \/ TarWriteHeader
    \/ TarCopyBody
    \/ TarEntriesDone
    \/ TarWriteTrailer
    \/ GoroutineEnd
    \/ PipeEOF
    \/ RemoteDone
    \/ ExecFail
    \/ CopyFileReturn

TarInit == IdleWatch /\ IdlePatch /\ IdleMerge /\ IdleRemove /\ InitTar

TarSpec == TarInit /\ [][NextTar]_vars

\* The scheduler runs the goroutine and the caller when they can step, and a
\* stream that has ended returns; the stream is not bound to break.
FairPipeSpec ==
    /\ PipeSpec
    /\ WF_vars(CopyFile)
    /\ WF_vars(CopyFileExec)
    /\ WF_vars(Producer)
    /\ WF_vars(PipeEOF)
    /\ WF_vars(CopyFileReturn)

----------------------------------------------------------------------------
\* Properties of a failing construction of the archive.

\* makeTar has failed: one of its calls returned an error.
TarFailed == wpc \in {"trailerErr", "retErr", "exit"}

\* After the failure no entry is added to the archive.
StopsAtOnce == [][TarFailed => Archived' = Archived]_vars

\* After the failure the read of the pipe does not wait for ever: the stream
\* ends, or the process ends with status -1 and the read with it.
ReaderNotLeftReading == TarFailed ~> (rdpc # "read")

\* After the failure the end-of-archive marker does not go through the pipe:
\* what the command in the pod reads is cut short.
StreamTruncated == [](TarFailed => ~cTrailer)

\* After the failure CopyFile does not return nil to its caller.
FailureTold == []((TarFailed /\ cres.returned) => cres.err # "")

\* C20: when makeTar fails in the goroutine of CopyFile, no entry is written
\* after the failure, the read of the pipe does not wait for ever, what the
\* command reads is a stream cut short (no end-of-archive marker), and the
\* caller is not given the result of a completion (CopyFile does not return
\* nil).
C20_FailureEndsTheStream ==
    /\ StopsAtOnce
    /\ ReaderNotLeftReading
    /\ StreamTruncated
    /\ FailureTold

\* Reached: a file system call failed before the header of the second entry,
\* the deferred tarWriter.Close() sent the end-of-archive marker after the
\* first entry, the command ended on it and CopyFile returned nil, while
\* the goroutine has not yet called os.Exit.
FailedYetReturnedNil ==
    /\ wpc = "retErr" /\ exitCode = ""
    /\ Len(cPlan) = 2 /\ Len(Archived) = 1
    /\ cTrailer
    /\ cpc = "done" /\ cres.returned /\ cres.err = ""

\* Reached: the failure came after the header of the second entry and the
\* process ended with status -1 before CopyFile returned.
ExitedBeforeReturn ==
    /\ exitCode = "-1"
    /\ rdpc = "killed"
    /\ cFail = [at |-> 2, how |-> "copy"]
    /\ Len(Archived) = 2 /\ Len(cPlan) = 2
    /\ ~cTrailer
    /\ ~cres.returned

----------------------------------------------------------------------------
\* The outcome of CopyFile when the files to copy are not there.

\* Nothing exists at localPath (copyFiles empty), or nothing exists at any
\* path of copyFiles.
FileSetMissing ==
    \/ cFiles = <<>> /\ cLocal.kind = "missing"
    \/ cFiles # <<>> /\ \A i \in DOMAIN cFiles : cFiles[i].node.kind = "missing"

\* CopyFile has returned, or the process has ended.
CopyEnded == cpc = "done" \/ exitCode # ""

\* C21: when the files to copy do not exist as the archive is built, CopyFile
\* ends by returning an error to its caller: it does not return nil, and it
\* does not end without returning.
C21_MissingFilesReturnAnError ==
    (FileSetMissing /\ CopyEnded) => (cres.returned /\ cres.err # "")

\* Reached: copyFiles names one path at which nothing exists, the archive
\* that went to the pod is empty and CopyFile has returned nil.
EmptyArchiveSuccess ==
    /\ cFiles # <<>> /\ FileSetMissing
    /\ cpc = "done" /\ cres.returned /\ cres.err = ""
    /\ cArchive = <<>> /\ cTrailer

\* Reached: nothing exists at localPath, the deferred tarWriter.Close() of
\* the failed makeTar has sent the end of the archive, the command in the
\* pod has ended on it, and CopyFile has returned nil before the goroutine
\* comes to os.Exit(-1).
MissingPathSuccess ==
    /\ cFiles = <<>> /\ cLocal.kind = "missing"
    /\ cpc = "done" /\ cres.returned /\ cres.err = ""
    /\ wpc = "retErr" /\ exitCode = ""
    /\ cArchive = <<>> /\ cTrailer

\* Reached: nothing exists at localPath and the process has ended with
\* status -1, CopyFile having returned nothing.
MissingPathExit ==
    /\ cFiles = <<>> /\ cLocal.kind = "missing"
    /\ exitCode = "-1" /\ ~cres.returned

----------------------------------------------------------------------------
\* The goroutine of WaitAndGetPod after the caller has returned.

\* WaitAndGetPod has returned on its timeout.
PodTimedOut ==
    /\ op = "Pod" /\ pc = "done"
    /\ ret = RetErr("waited but couldn't find running pod")

\* C22: after WaitAndGetPod has returned on its timeout the subscription is
\* stopped, and the goroutine that reads the stream comes to its end: it
\* does not stay in a send that nobody receives.
C22_GoroutineEndsAfterTimeout ==
    /\ [](PodTimedOut => stops > 0)
    /\ (PodTimedOut ~> gpc = "exit")

\* Reached: the caller has returned on its timeout and the goroutine, which
\* found the result channel closed, is in its send on watchErrorChannel.
GoroutineLeftSending ==
    /\ PodTimedOut
    /\ stops = 1
    /\ gpc = "sendErr" /\ gval = RetErr("watch channel was closed")
    /\ ~chClosed

----------------------------------------------------------------------------
\* The update in place with other callers of the client on the same
\* cluster: they write the DeploymentConfig and the claims before and while
\* UpdateDCToGit or UpdateDCToSupervisor runs, its wait included.

\* One operation is called and runs to its end beside the other callers.
NextPatchRace ==
    \/ hist = <<>> /\ UpdateDCToGit
    \/ hist = <<>> /\ UpdateDCToSupervisor
    \/ writes < MaxRaceWrites /\ OtherWriter
    \/ writes < MaxRaceWrites /\ LinkSecret
    \/ LinkSecretInstantiate
    \/ PatchCurrentDC
    \/ PatchUpdate
    \/ PatchWait
    \/ AfterPatch

PatchRaceInit == IdleWatch /\ InitPatchWatch /\ IdleLib

PatchRaceSpec == PatchRaceInit /\ [][NextPatchRace]_vars

\* The ports and the variables that the operation writes for the component's
\* container when it computes them from the dc d.
PortsFrom(d) == findContainer(d.containers, Name).c.ports
EnvFrom(o, d) ==
    LET env == findContainer(d.containers, Name).c.env
    IN  IF o = "ToSupervisor"
        THEN uniqueAppendOrOverwriteEnvVars(EnvList(env), bootstrapEnvs)
        ELSE env

\* A step in which the cluster accepts the Update of PatchCurrentDC.
UpdateAccepted == ppc = "update" /\ ppc' = "wait"

\* C23: the DeploymentConfig that an accepted Update of UpdateDCToGit or
\* UpdateDCToSupervisor writes has the ports and the variables computed from
\* the version the Update is conditioned on, the one the cluster holds when
\* it accepts it: what another writer changed before is kept.
C23_WrittenFromOneVersion ==
    [][(pop \in PatchOps /\ UpdateAccepted) =>
            /\ dcR.rv = cur.rv
            /\ PortsFrom(dcR') = PortsFrom(dcR)
            /\ EnvFrom("ToGit", dcR') = EnvFrom(pop, dcR)]_vars

\* Reached: another caller added a variable after the first fetch, the
\* Update was accepted on the version that holds it, and the variable is
\* gone from the cluster's DeploymentConfig.
ChangeOverwritten ==
    /\ pop = "ToGit" /\ ppc = "wait"
    /\ EnvVar("B", "2") \notin EnvFrom("ToGit", dcAtCall)
    /\ EnvVar("B", "2") \in EnvFrom("ToGit", cur)
    /\ EnvVar("B", "2") \notin EnvFrom("ToGit", dcR)
    /\ dcR.rv = cur.rv + 1

\* The Update of PatchCurrentDC was rejected with a conflict and the
\* operation has returned that error; no caller writes after the return.
ConflictReturned ==
    /\ ppc = "done"
    /\ pres = Err("unable to update DeploymentConfig")
    /\ dcR.exists

\* C24: PatchCurrentDC returns the conflict of its Update to the caller only
\* after it has run its cycle of fetch, change and Update again, as many
\* times as retry.DefaultBackoff allows.
C24_ConflictIsRetried ==
    ConflictReturned => (updates > 1 /\ updates <= DefaultBackoffSteps)

\* Reached: another caller wrote between the fetch and the Update, and the
\* operation has returned the conflict after its one Update call.
ConflictAfterOneUpdate ==
    /\ ConflictReturned
    /\ updates = 1
    /\ dcR.rv = cur.rv + 1
    /\ dcR.ann = cur.ann

\* Reached: another caller wrote the DeploymentConfig while the operation
\* was in its wait, after its Update was accepted.
WrittenDuringWait ==
    /\ ppc = "wait"
    /\ updates = 1
    /\ dcR.rv = pending.rv + 2
    /\ Len(dcR.volumes) = Len(pending.volumes) + 1

\* Reached: another caller deleted the DeploymentConfig between the two
\* fetches of the operation.
DeletedBetweenFetches ==
    /\ pop \in PatchOps /\ ppc = "done"
    /\ dcAtCall.exists /\ ~dcR.exists
    /\ pres = Err("unable to get DeploymentConfig")
    /\ desired # NoDC

\* Reached: RemoveVolumeFromDeploymentConfig of another caller took one of
\* the two volumes between the two fetches of the operation.
VolumeRemovedBetweenFetches ==
    /\ ppc = "patch"
    /\ Len(dcAtCall.volumes) = 2
    /\ dcR.exists /\ Len(dcR.volumes) = 1
    /\ dcR.rv = dcAtCall.rv + 1

\* Reached: UpdateDCToSupervisor of another caller wrote the supervisord dc
\* between the fetch and the Update of an attempt of the removal.
SupervisorWrittenDuringRemoval ==
    /\ rpc = "update" /\ writes = 1
    /\ dcR.exists /\ Len(dcR.initc) = 2
    /\ dcR.volumes[1].name = supervisordVolumeName
    /\ dc0.volumes[1].name # supervisordVolumeName

\* Reached: the attempt fetched between the Update and the Instantiate of
\* LinkSecret of another caller, and its dc is stale after the Instantiate.
FetchedBetweenLinkSecretWrites ==
    /\ rpc = "update" /\ attempts = 1
    /\ writes = 1 /\ linkpc = "none"
    /\ rdc.rv = dc0.rv + 1
    /\ dcR.rv = dc0.rv + 2

----------------------------------------------------------------------------
\* More properties of the removal of a volume and of the update in place.

\* The dc of the cluster with the volume of the claim and its mounts removed.
Removed(d) ==
    LET vn == getVolumeNamesFromPVC(RemovedPVC, d)[1]
    IN  removeVolumeMountFromDC(vn, removeVolumeFromDC(vn, d).dc).dc

\* C25: the dc that RemoveVolumeFromDeploymentConfig hands to Update is the
\* one the cluster held when the current attempt fetched it, with the volume
\* removed and under the resourceVersion of that fetch; it is not changed
\* between the fetch and the Update, and an accepted Update writes it.
C25_UpdateFromFetchOfSameAttempt ==
    /\ [][(AttemptStep /\ rpc' = "update") =>
            /\ rdc'.rv = dcR.rv
            /\ rdc' = Removed(dcR)]_vars
    /\ [][(rpc = "update" /\ rpc' = "update") => rdc' = rdc]_vars
    /\ [][(rpc = "update" /\ rres'.ok) =>
            /\ rdc.rv = dcR.rv
            /\ dcR' = [rdc EXCEPT !.rv = @ + 1]]_vars

\* The second attempt, after a conflict, is at its Update with the dc of its
\* own fetch, which another caller had given a variable.
C25_Witness ==
    /\ rpc = "update"
    /\ attempts = 2
    /\ rupdates = 1
    /\ rdc.rv = dcR.rv
    /\ rdc.rv = dc0.rv + 1
    /\ EnvVar("B", "2") \in rdc.containers[1].env

\* C26: the claim of the data volume is created by UpdateDCToSupervisor, or
\* deleted by UpdateDCToGit, only after PatchCurrentDC has returned nil in
\* the same call (its Update accepted, its wait ended with the snapshot);
\* an operation whose patch failed leaves the claims as they were.
C26_ClaimOnlyAfterPatch ==
    /\ (pvcs # pvcsAtCall) =>
            /\ pop \in PatchOps
            /\ ppc = "done" /\ pres.ok
            /\ updates = 1
            /\ dcR = [pending EXCEPT !.rv = @ + 1]
            /\ pc = "returned" /\ ret.kind = "ok"
            /\ pvcs = IF pop = "ToSupervisor"
                      THEN pvcsAtCall \cup {getAppRootVolumeName(Name)}
                      ELSE pvcsAtCall \ {getAppRootVolumeName(Name)}
    /\ (ppc \in {"done", "panic"} /\ ~pres.ok) => pvcs = pvcsAtCall

\* The claim was created after a patch whose wait received the snapshot.
C26_Witness ==
    /\ pop = "ToSupervisor"
    /\ ppc = "done" /\ pres.ok
    /\ pvcsAtCall = {} /\ pvcs = {getAppRootVolumeName(Name)}
    /\ ret.kind = "ok" /\ emitted[ret.idx].val = "local"
    /\ dcR.ann = "local"

\* Reached too: a patch that failed in its wait, after its Update; no claim
\* is touched.
PatchFailedClaimsKept ==
    /\ pop = "ToSupervisor"
    /\ ppc = "done"
    /\ pres = Err("unable to wait for DeploymentConfig to update")
    /\ updates = 1 /\ dcR.rv = dcAtCall.rv + 1
    /\ timerFired
    /\ pvcs = {} /\ pvcsAtCall = {}

\* Reached too: UpdateDCToGit has deleted the claim after its patch.
ClaimDeletedAfterPatch ==
    /\ pop = "ToGit"
    /\ ppc = "done" /\ pres.ok
    /\ pvcsAtCall = {getAppRootVolumeName(Name)} /\ pvcs = {}

\* PatchCurrentDC has fetched the dc and found the component's container:
\* desired is the dc after copyVolumesAndVolumeMounts.
VolumesCopied ==
    /\ pop \in PatchOps
    /\ ppc \notin {"idle", "patch"}
    /\ cur.exists
    /\ findContainer(cur.containers, Name).found

\* The handler of the operation applied to the dc after the copy.
Handled ==
    IF pop = "ToGit" THEN removeTracesOfSupervisordFromDC(desired)
                     ELSE [err |-> "", dc |-> desired]

\* C27: the object PatchCurrentDC hands to Update has the spec and the
\* annotations that the handler returned for the dc after the copy of the
\* volumes and mounts, with nothing changed after the handler; when the
\* handler returns an error there is no Update call and the cluster's
\* DeploymentConfig is the one it was.
C27_HandlerIsLastAndItsErrorStops ==
    VolumesCopied =>
        /\ desired = copyVolumesAndVolumeMounts(
                        [desired EXCEPT
                            !.volumes = SubSeq(@, 1, Len(@) - Len(copiedEntries(cur.volumes))),
                            !.containers[1].mounts =
                                SubSeq(@, 1, Len(@) - Len(copiedEntries(
                                    findContainer(cur.containers, Name).c.mounts)))],
                        cur, findContainer(cur.containers, Name).c)
        /\ IF Handled.err = ""
           THEN /\ pending.containers = Handled.dc.containers
                /\ pending.volumes = Handled.dc.volumes
                /\ pending.initc = Handled.dc.initc
                /\ pending.ann = Handled.dc.ann
           ELSE /\ updates = 0
                /\ pending = NoDC
                /\ dcR = dcAtCall
                /\ \/ ppc = "panic" /\ Handled.err = "panic"
                   \/ ppc = "done" /\ pres = Err(Handled.err)

\* The handler of UpdateDCToGit found no data volume in the dc: the
\* operation has returned its error and made no Update call.
C27_Witness ==
    /\ VolumesCopied
    /\ pop = "ToGit" /\ ppc = "done"
    /\ pres = Err("unable to find volume in dc")
    /\ Len(desired.volumes) = 1
    /\ updates = 0 /\ dcR = dcAtCall

\* The containers of a dc that have the component's name.
Named(d) == {c \in Range(d.containers) : c.name = Name}

\* C28: the operations take the ports, the variables and the mounts from the
\* container of the current DeploymentConfig that has the component's name,
\* at whatever position it is; when the DeploymentConfig has no container of
\* that name the operation ends with an error, makes no Update call and
\* leaves the cluster's DeploymentConfig as it was.
C28_PrimaryContainerByName ==
    /\ (pop \in PatchOps /\ dcAtCall.exists /\ Named(dcAtCall) = {}) =>
            /\ ppc = "done" /\ ~pres.ok
            /\ updates = 0
            /\ pending = NoDC
            /\ dcR = dcAtCall
    /\ (pop \in PatchOps /\ ppc = "wait") =>
            \E p \in Named(cur) : \E w \in Named(dcR) :
                /\ w.ports = p.ports
                /\ w.env = IF pop = "ToSupervisor"
                           THEN uniqueAppendOrOverwriteEnvVars(EnvList(p.env), bootstrapEnvs)
                           ELSE p.env
                /\ \A i \in DOMAIN p.mounts :
                        (/\ p.mounts[i].name \notin {supervisordVolumeName,
                                                     getAppRootVolumeName(Name)}
                         /\ \A j \in 1..(i - 1) : p.mounts[j].name = supervisordVolumeName)
                            => p.mounts[i] \in Range(w.mounts)

\* The component's container is behind a container the user added, it has a
\* mount, and the Update was accepted.
C28_Witness ==
    /\ pop = "ToSupervisor" /\ ppc = "wait"
    /\ Len(cur.containers) = 2
    /\ cur.containers[1].name = "sidecar"
    /\ cur.containers[2].name = Name
    /\ cur.containers[2].mounts # <<>>
    /\ cur.containers[2].mounts[1] \in Range(dcR.containers[1].mounts)
    /\ dcR.containers[1].ports = <<8080>>

\* C29: the object PatchCurrentDC hands to Update has the name and the
\* resourceVersion of the DeploymentConfig it fetched in the same call, and
\* differs from it in the spec and the annotations only; an Update the
\* cluster accepts leaves the name and moves the resourceVersion of that
\* fetch on by one.
C29_IdentityAndVersionKept ==
    /\ []((pending # NoDC) =>
            /\ pending.exists
            /\ pending.name = cur.name
            /\ pending.rv = cur.rv
            /\ cur.rv >= dcAtCall.rv
            /\ pending = patchedDC(cur, pending))
    /\ [][UpdateAccepted =>
            /\ dcR.name = cur.name /\ dcR.rv = cur.rv
            /\ dcR'.name = cur.name
            /\ dcR'.rv = cur.rv + 1]_vars

\* Another caller wrote before the fetch of PatchCurrentDC: the object for
\* Update carries the resourceVersion of that fetch, and the Update was
\* accepted.
C29_Witness ==
    /\ ppc = "wait"
    /\ cur.rv = dcAtCall.rv + 1
    /\ pending.rv = cur.rv
    /\ pending.ann # cur.ann
    /\ dcR.name = Name
    /\ dcR.rv = cur.rv + 1

----------------------------------------------------------------------------
\* CopyFile with the output of the command in the pod. CopyFile hands the
\* writing end of the pipe to ExecCMDInContainer as stdout and as stderr, and
\* the reading end as stdin.

\* C30: what the reader has taken from the pipe, and sent to the pod as the
\* stdin of the command, is what the goroutine of CopyFile has written of
\* the archive, in its order: nothing else is written into the pipe.
C30_StdinIsTheArchive ==
    /\ cArchive = Archived
    /\ Len(cArchive) <= Len(cPlan)
    /\ \A i \in DOMAIN cArchive : cArchive[i] = cPlan[i]

\* Reached: a line of the command's output went into the pipe before the
\* first entry of the archive and another inside it, the whole archive
\* followed, and CopyFile has returned nil.
OutputInStdin ==
    /\ cpc = "done" /\ cres.err = ""
    /\ Len(cPlan) = 2
    /\ Archived = cPlan
    /\ cArchive = <<RemoteLine, cPlan[1], RemoteLine, cPlan[2]>>
    /\ cTrailer

====
